---- MODULE Spec2Model ----
(***************************************************************************)
(* Model of the hot-search crawler: the result model (models.py), the      *)
(* scrape strategy with its bounded retry loop (base_crawler.py,           *)
(* xiaohongshu_crawler.py), the browser fallback orchestrator              *)
(* (crawler_with_fallback.py) and the JSON persistence (data_saver.py).    *)
(*                                                                         *)
(* Strings are sequences of one-character strings, so that strip() is an   *)
(* operator that does something.  An optional value (Python None or a      *)
(* value) is a sequence of length 0 or 1.                                  *)
(***************************************************************************)
EXTENDS Integers, Sequences, FiniteSets, TLC

(* ------------------------------- bounds -------------------------------- *)

\* largest max_retries a configuration is drawn with
MaxRetriesBound == 3
\* largest limit a configuration is drawn with
MaxLimit == 2
\* longest 'data' list of a scrape response body
MaxEntries == 2
\* most elements the DOM query of the browser heuristic matches
MaxDom == 2
\* most crawl_hot_search() calls made on one orchestrator instance
MaxCalls == 2
\* most items appended to one ResultSet
MaxItems == 2
\* most items of a document found in the data directory
MaxForeignItems == 1
\* digits before and after the decimal point of a heat string
MaxIntDigits == 2
MaxFracDigits == 2

(* --------------------------- optional values --------------------------- *)

None == << >>
Some(x) == << x >>
IsNone(o) == Len(o) = 0
Get(o) == o[1]

(* ------------------------------- strings ------------------------------- *)

EmptyStr == << >>
IsSpace(c) == c = " "

RECURSIVE LStrip(_)
LStrip(s) == IF s /= << >> /\ IsSpace(Head(s)) THEN LStrip(Tail(s)) ELSE s

RECURSIVE RStrip(_)
RStrip(s) ==
    IF s /= << >> /\ IsSpace(s[Len(s)]) THEN RStrip(SubSeq(s, 1, Len(s) - 1)) ELSE s

\* str.strip()
Strip(s) == RStrip(LStrip(s))

\* Python truthiness of a str / list
Truthy(s) == Len(s) > 0

\* seq[:n] for n >= 0
Take(s, n) == SubSeq(s, 1, IF n < Len(s) THEN n ELSE Len(s))

Min(a, b) == IF a < b THEN a ELSE b

(* ----------------------------- result model ---------------------------- *)

\* HotSearchItem(word, heat, rank, url) with category and tags defaulted
HotSearchItem(word, heat, rank, url) ==
    [word |-> word, heat |-> heat, rank |-> rank, url |-> url,
     category |-> None, tags |-> << >>]

\* HotSearchResult(total=t): items defaults to the empty list, total is a
\* plain field the constructor accepts
HotSearchResult(t) == [items |-> << >>, total |-> t]

add_item_stale(r, item) ==
    [items |-> Append(r.items, item), total |-> Len(r.items)]

\* HotSearchResult.add_item
add_item(r, item) ==
    [items |-> Append(r.items, item), total |-> Len(r.items) + 1]

(* --------------------------- scrape strategy --------------------------- *)

\* the response bodies response.json() can return: a falsy document ({}),
\* a document without the 'data' key, or {'data': [...]}
EntryWords == { EmptyStr, << "a" >> }
EntryHeats == { Some(0), Some(3) }
Entries == [word : EntryWords, heat : EntryHeats, url : { EmptyStr }]

RECURSIVE SeqsUpTo(_, _)
SeqsUpTo(S, n) ==
    IF n = 0 THEN { << >> }
    ELSE LET shorter == SeqsUpTo(S, n - 1)
         IN  shorter \cup { Append(q, x) : q \in { t \in shorter : Len(t) = n - 1 }, x \in S }

Bodies ==
    { [kind |-> "falsy", data |-> << >>], [kind |-> "nokey", data |-> << >>] }
    \cup { [kind |-> "dict", data |-> d] : d \in SeqsUpTo(Entries, MaxEntries) }

\* the same documents with a second word, with a negative 'heat', and with
\* entries whose 'heat' is null, which HotSearchItem refuses (heat: int)
ScrapeEntries ==
    [word : EntryWords \cup { << "b" >> }, heat : EntryHeats \cup { Some(-1), None },
     url : { EmptyStr }]

ScrapeBodies ==
    { [kind |-> "falsy", data |-> << >>], [kind |-> "nokey", data |-> << >>] }
    \cup { [kind |-> "dict", data |-> d] : d \in SeqsUpTo(ScrapeEntries, MaxEntries) }

\* the for loop of _parse_hot_search_data over enumerate(items_data[:limit]);
\* the validation error of HotSearchItem is caught by the inner except
RECURSIVE ParseEntries(_, _, _)
ParseEntries(entries, idx, result) ==
    IF idx > Len(entries) THEN result
    ELSE LET e == entries[idx]
         IN  IF ~Truthy(e.word) \/ IsNone(e.heat)
             THEN ParseEntries(entries, idx + 1, result)
             ELSE ParseEntries(entries, idx + 1,
                               add_item(result, HotSearchItem(e.word, Get(e.heat), idx, e.url)))

\* XiaohongshuCrawler._parse_hot_search_data: None, or Some(result)
_parse_hot_search_data(body, limit) ==
    IF body.kind /= "dict" THEN None
    ELSE IF ~Truthy(body.data) THEN Some(HotSearchResult(0))
    ELSE Some(ParseEntries(Take(body.data, limit), 1, HotSearchResult(0)))

\* the tail of XiaohongshuCrawler.crawl_hot_search once _make_request returned
ParseResponse(response_data, limit) ==
    IF IsNone(response_data) \/ Get(response_data).kind = "falsy" THEN None
    ELSE _parse_hot_search_data(Get(response_data), limit)

(* --------------------------- heat strings ------------------------------ *)

\* the characters of a heat string; "wan" and "qian" stand for the CJK
\* characters for ten thousand and for thousand
Digits == { "0", "1", "2", "3", "4", "5", "6", "7", "8", "9" }

DigitVal(c) ==
    CASE c = "0" -> 0 [] c = "1" -> 1 [] c = "2" -> 2 [] c = "3" -> 3
      [] c = "4" -> 4 [] c = "5" -> 5 [] c = "6" -> 6 [] c = "7" -> 7
      [] c = "8" -> 8 [] c = "9" -> 9

\* str.lower() on the characters that have a case
LowerChar(c) ==
    CASE c = "W" -> "w" [] c = "K" -> "k" [] c = "I" -> "i"
      [] c = "N" -> "n" [] c = "F" -> "f" [] c = "A" -> "a" [] OTHER -> c

Lower(s) == [i \in DOMAIN s |-> LowerChar(s[i])]

\* s.replace(c, '')
Remove(s, c) == SelectSeq(s, LAMBDA x : x /= c)

\* c in s
Contains(s, c) == \E i \in DOMAIN s : s[i] = c

(* IEEE-754 binary64, round to nearest even.  A finite double is a natural
   number `bits` scaled by a power of two: value = bits * 2^exp.  Naturals
   beyond the machine word are limb sequences in base 2^LimbBits, most
   significant limb first, << >> being zero. *)
MantissaBits == 53
LimbBits == 15
LimbBase == 32768

RECURSIVE Pow10(_)
Pow10(d) == IF d = 0 THEN 1 ELSE 10 * Pow10(d - 1)

RECURSIVE BitLen(_)
BitLen(n) == IF n = 0 THEN 0 ELSE 1 + BitLen(n \div 2)

RECURSIVE LimbsOf(_)
LimbsOf(n) == IF n = 0 THEN << >> ELSE Append(LimbsOf(n \div LimbBase), n % LimbBase)

RECURSIVE IntOf(_)
IntOf(a) ==
    IF a = << >> THEN 0
    ELSE LimbBase * IntOf(SubSeq(a, 1, Len(a) - 1)) + a[Len(a)]

RECURSIVE StripZeros(_)
StripZeros(a) == IF a /= << >> /\ Head(a) = 0 THEN StripZeros(Tail(a)) ELSE a

\* number of significant bits
Bits(a) == IF a = << >> THEN 0 ELSE LimbBits * (Len(a) - 1) + BitLen(a[1])

\* a * factor for a factor below the limb base
RECURSIVE MulSmall(_, _, _, _)
MulSmall(a, i, factor, acc) ==
    IF i = 0 THEN StripZeros(<< acc.carry >> \o acc.out)
    ELSE LET t == a[i] * factor + acc.carry
         IN  MulSmall(a, i - 1, factor,
                      [out |-> << t % LimbBase >> \o acc.out, carry |-> t \div LimbBase])

Times(a, factor) == MulSmall(a, Len(a), factor, [out |-> << >>, carry |-> 0])

\* a divided by a divisor below 2 * LimbBase: quotient and remainder
RECURSIVE DivSmall(_, _, _, _)
DivSmall(a, i, divisor, acc) ==
    IF i > Len(a) THEN [quo |-> StripZeros(acc.quo), rem |-> acc.rem]
    ELSE LET r == LimbBase * acc.rem + a[i]
         IN  DivSmall(a, i + 1, divisor,
                      [quo |-> Append(acc.quo, r \div divisor), rem |-> r % divisor])

DivMod(a, divisor) == DivSmall(a, 1, divisor, [quo |-> << >>, rem |-> 0])

\* a * 2^n
RECURSIVE ShiftLeft(_, _)
ShiftLeft(a, n) ==
    IF a = << >> THEN a
    ELSE IF n >= LimbBits THEN ShiftLeft(Append(a, 0), n - LimbBits)
    ELSE Times(a, 2 ^ n)

\* a \div 2^n, and whether a non-zero remainder was dropped
RECURSIVE ShiftRight(_, _, _)
ShiftRight(a, n, sticky) ==
    IF a = << >> THEN [val |-> a, sticky |-> sticky]
    ELSE IF n >= LimbBits
    THEN ShiftRight(SubSeq(a, 1, Len(a) - 1), n - LimbBits, sticky \/ a[Len(a)] /= 0)
    ELSE LET q == DivMod(a, 2 ^ n)
         IN  [val |-> q.quo, sticky |-> sticky \/ q.rem /= 0]

\* a + 1
RECURSIVE Increment(_)
Increment(a) ==
    IF a = << >> THEN << 1 >>
    ELSE IF a[Len(a)] + 1 < LimbBase
         THEN Append(SubSeq(a, 1, Len(a) - 1), a[Len(a)] + 1)
         ELSE Append(Increment(SubSeq(a, 1, Len(a) - 1)), 0)

IsOdd(a) == a /= << >> /\ a[Len(a)] % 2 = 1

\* round a * 2^exp (plus a non-zero tail when sticky) to MantissaBits
\* significant bits, ties to even
RoundDouble(a, exp, sticky) ==
    LET drop == Bits(a) - MantissaBits
    IN  IF drop <= 0 THEN [bits |-> a, exp |-> exp]
        ELSE LET upto  == ShiftRight(a, drop - 1, sticky)
                 kept  == ShiftRight(upto.val, 1, FALSE).val
                 up    == IsOdd(upto.val) /\ (upto.sticky \/ IsOdd(kept))
             IN  [bits |-> IF up THEN Increment(kept) ELSE kept, exp |-> exp + drop]

\* the double nearest to m / 10^d
DoubleOfDecimal(m, d) ==
    IF m = 0 THEN [bits |-> << >>, exp |-> 0]
    ELSE LET divisor == Pow10(d)
             k == MantissaBits + BitLen(divisor)
             q == DivMod(ShiftLeft(LimbsOf(m), k), divisor)
         IN  RoundDouble(q.quo, 0 - k, q.rem /= 0)

\* float * int: the exact product rounded to a double
DoubleTimes(f, factor) == RoundDouble(Times(f.bits, factor), f.exp, FALSE)

\* the integer part of a double (truncation toward zero)
DoubleTrunc(f) ==
    IF f.exp >= 0 THEN IntOf(ShiftLeft(f.bits, f.exp))
    ELSE IntOf(ShiftRight(f.bits, 0 - f.exp, FALSE).val)

RECURSIVE DigitsToInt(_)
DigitsToInt(s) ==
    IF s = << >> THEN 0
    ELSE 10 * DigitsToInt(SubSeq(s, 1, Len(s) - 1)) + DigitVal(s[Len(s)])

\* the decimal literals float() accepts: digits with at most one point and
\* at least one digit
IsDecimal(s) ==
    /\ \A i \in DOMAIN s : s[i] \in Digits \cup { "." }
    /\ \E i \in DOMAIN s : s[i] \in Digits
    /\ Len(SelectSeq(s, LAMBDA x : x = ".")) <= 1

\* number of digits after the point
FracDigits(s) ==
    IF Contains(s, ".")
    THEN Len(s) - (CHOOSE i \in DOMAIN s : s[i] = ".")
    ELSE 0

\* float(s): a ValueError, a nan, an infinity or a finite double with sign
PyFloat(s) ==
    LET signed == s /= << >> /\ s[1] \in { "-", "+" }
        neg    == s /= << >> /\ s[1] = "-"
        body   == IF signed THEN Tail(s) ELSE s
    IN  IF body \in { << "i", "n", "f" >>,
                      << "i", "n", "f", "i", "n", "i", "t", "y" >> }
        THEN [kind |-> "inf", neg |-> neg, bits |-> << >>, exp |-> 0]
        ELSE IF body = << "n", "a", "n" >>
        THEN [kind |-> "nan", neg |-> neg, bits |-> << >>, exp |-> 0]
        ELSE IF IsDecimal(body)
        THEN LET f == DoubleOfDecimal(DigitsToInt(Remove(body, ".")), FracDigits(body))
             IN  [kind |-> "finite", neg |-> neg, bits |-> f.bits, exp |-> f.exp]
        ELSE [kind |-> "ValueError", neg |-> FALSE, bits |-> << >>, exp |-> 0]

\* float * int in Python
PyTimes(f, factor) ==
    IF f.kind = "finite"
    THEN LET g == DoubleTimes(f, factor)
         IN  [f EXCEPT !.bits = g.bits, !.exp = g.exp]
    ELSE f

\* int(f) inside _parse_heat_value's try: float() or int() raising
\* ValueError is caught and gives 0, the OverflowError of int(inf) is not
\* in the except clause and escapes
HeatOfFloat(f) ==
    CASE f.kind = "ValueError" -> [raised |-> FALSE, value |-> 0]
      [] f.kind = "nan"        -> [raised |-> FALSE, value |-> 0]
      [] f.kind = "inf"        -> [raised |-> TRUE, value |-> 0]
      [] f.kind = "finite"     ->
            [raised |-> FALSE,
             value  |-> IF f.neg THEN 0 - DoubleTrunc(f) ELSE DoubleTrunc(f)]

TenThousand == 10000
Thousand == 1000

\* XiaohongshuApiCrawler._parse_heat_value
_parse_heat_value(heat_str) ==
    IF ~Truthy(heat_str) THEN [raised |-> FALSE, value |-> 0]
    ELSE LET cleaned == Remove(Remove(Strip(Lower(heat_str)), " "), ",")
         IN  IF Contains(cleaned, "wan") \/ Contains(cleaned, "w")
             THEN HeatOfFloat(PyTimes(PyFloat(Remove(Remove(cleaned, "wan"), "w")),
                                      TenThousand))
             ELSE IF Contains(cleaned, "qian") \/ Contains(cleaned, "k")
             THEN HeatOfFloat(PyTimes(PyFloat(Remove(Remove(cleaned, "qian"), "k")),
                                      Thousand))
             ELSE HeatOfFloat(PyFloat(cleaned))

(* ----------------------------- API strategy ---------------------------- *)

\* an entry of the API's 'data' list: 'name' missing, empty or a word; 'rank'
\* missing, an integer or null; 'viewnum' a heat string
ApiNames == { None, Some(EmptyStr), Some(<< "a" >>), Some(<< "b" >>) }
NoRank == [kind |-> "absent", v |-> 0]
ApiRanks ==
    { NoRank, [kind |-> "int", v |-> 5], [kind |-> "int", v |-> 0], [kind |-> "null", v |-> 0] }
ApiViewnums == { << "2", "w" >>, << "i", "n", "f" >> }
ApiEntries == [name : ApiNames, rank : ApiRanks, viewnum : ApiViewnums, url : { EmptyStr }]

\* what the server can answer: no answer (transport error or timeout), a
\* non-200 status, a 200 whose body is not JSON, a JSON body that is not an
\* object, or an object with a 'code' and a 'data' list
ApiFailures ==
    { [kind |-> "transport", status |-> 0, code |-> 0, data |-> << >>],
      [kind |-> "status", status |-> 500, code |-> 0, data |-> << >>],
      [kind |-> "badjson", status |-> 200, code |-> 0, data |-> << >>],
      [kind |-> "notobject", status |-> 200, code |-> 0, data |-> << >>] }

ApiBodies ==
    { [kind |-> "body", status |-> 200, code |-> 200, data |-> d] :
        d \in SeqsUpTo(ApiEntries, MaxEntries) }
    \cup { [kind |-> "body", status |-> 200, code |-> 400, data |-> d] :
             d \in SeqsUpTo(ApiEntries, 1) }

_make_api_request_lenient(resp) ==
    IF resp.kind /= "body" THEN None ELSE Some(resp)

\* XiaohongshuApiCrawler._make_api_request once requests.get answered `resp`:
\* every failure is caught and gives None
_make_api_request(resp) ==
    IF resp.kind /= "body" THEN None
    ELSE IF resp.code /= 200 THEN None
    ELSE Some(resp)

\* HotSearchItem(..., category=word_type) with word_type defaulted
ApiItem(word, heat, rank, url) ==
    [HotSearchItem(word, heat, rank, url) EXCEPT !.category = Some(<< "hot" >>)]

ApiRank_zero_based(e, idx) == IF e.rank.kind = "absent" THEN idx - 1 ELSE e.rank.v

\* int(item_data.get('rank', idx + 1)) for a rank that int() accepts; idx is
\* the 1-based position
ApiRank(e, idx) == IF e.rank.kind = "absent" THEN idx ELSE e.rank.v

\* whether the body of the per-item try raises: int(None), or an escaping
\* OverflowError of _parse_heat_value
ApiEntryRaises(e) ==
    \/ e.rank.kind = "null"
    \/ (~IsNone(e.name) /\ Truthy(Get(e.name)) /\ _parse_heat_value(e.viewnum).raised)

ApiWord(e) == IF IsNone(e.name) THEN EmptyStr ELSE Get(e.name)

RECURSIVE ParseApiEntries_abort(_, _, _)
ParseApiEntries_abort(entries, idx, result) ==
    IF idx > Len(entries) THEN result
    ELSE LET e == entries[idx]
         IN  IF ApiEntryRaises(e) THEN result
             ELSE IF ~Truthy(ApiWord(e))
             THEN ParseApiEntries_abort(entries, idx + 1, result)
             ELSE ParseApiEntries_abort(entries, idx + 1,
                      add_item(result, ApiItem(ApiWord(e), _parse_heat_value(e.viewnum).value,
                                               ApiRank(e, idx), e.url)))

\* the for loop of _parse_api_data over enumerate(hot_list[:limit])
RECURSIVE ParseApiEntries(_, _, _)
ParseApiEntries(entries, idx, result) ==
    IF idx > Len(entries) THEN result
    ELSE LET e == entries[idx]
         IN  IF ApiEntryRaises(e) \/ ~Truthy(ApiWord(e))
             THEN ParseApiEntries(entries, idx + 1, result)
             ELSE ParseApiEntries(entries, idx + 1,
                      add_item(result, ApiItem(ApiWord(e), _parse_heat_value(e.viewnum).value,
                                               ApiRank(e, idx), e.url)))

\* XiaohongshuApiCrawler._parse_api_data
_parse_api_data(data, limit) ==
    IF ~Truthy(data.data) THEN Some(HotSearchResult(0))
    ELSE Some(ParseApiEntries(Take(data.data, limit), 1, HotSearchResult(0)))

ApiCrawlResult_nonempty(api_data, limit) ==
    IF IsNone(api_data) THEN None
    ELSE LET r == _parse_api_data(Get(api_data), limit)
         IN  IF Get(r).total = 0 THEN None ELSE r

\* the tail of XiaohongshuApiCrawler.crawl_hot_search once _make_api_request
\* returned
ApiCrawlResult(api_data, limit) ==
    IF IsNone(api_data) THEN None ELSE _parse_api_data(Get(api_data), limit)

\* create_api_crawler: the key argument, else the environment variable;
\* None when neither is set (the factory raises ValueError)
FactoryKey(arg, env) ==
    IF ~IsNone(arg) /\ Truthy(Get(arg)) THEN arg
    ELSE IF ~IsNone(env) /\ Truthy(Get(env)) THEN env
    ELSE None

FactoryLimit == 50

(* -------------------------------- analysis ----------------------------- *)

\* str.split(): the maximal runs of non-blank characters
RECURSIVE Split(_)
Split(s) ==
    LET t == LStrip(s)
    IN  IF t = << >> THEN << >>
        ELSE LET blanks == { i \in DOMAIN t : IsSpace(t[i]) }
                 n == IF blanks = { } THEN Len(t)
                      ELSE (CHOOSE i \in blanks : \A j \in blanks : i <= j) - 1
             IN  << SubSeq(t, 1, n) >> \o Split(SubSeq(t, n + 1, Len(t)))

RECURSIVE Sum(_)
Sum(q) == IF q = << >> THEN 0 ELSE Head(q) + Sum(Tail(q))

\* numbers that need not be integers are fractions num / den
Whole(n) == [num |-> n, den |-> 1]

\* statistics.mean
Mean(q) == [num |-> Sum(q), den |-> Len(q)]

\* max() and min() of a non-empty list
Max(q) == CHOOSE x \in { q[i] : i \in DOMAIN q } : \A i \in DOMAIN q : q[i] <= x
Minimum(q) == CHOOSE x \in { q[i] : i \in DOMAIN q } : \A i \in DOMAIN q : x <= q[i]

\* sorted(): insertion into an ascending list, after the equal elements
RECURSIVE InsertAsc(_, _)
InsertAsc(sorted, x) ==
    IF sorted = << >> THEN << x >>
    ELSE IF Head(sorted) <= x THEN << Head(sorted) >> \o InsertAsc(Tail(sorted), x)
    ELSE << x >> \o sorted

RECURSIVE SortAsc(_)
SortAsc(q) ==
    IF q = << >> THEN << >> ELSE InsertAsc(SortAsc(SubSeq(q, 1, Len(q) - 1)), q[Len(q)])

\* statistics.median: the middle value, or the mean of the two middle values
Median(q) ==
    LET sorted == SortAsc(q)
        n == Len(q)
    IN  IF n % 2 = 1 THEN Whole(sorted[(n + 1) \div 2])
        ELSE [num |-> sorted[n \div 2] + sorted[n \div 2 + 1], den |-> 2]

\* Counter.update(words): counts kept in first-seen order
RECURSIVE CounterUpdate(_, _)
CounterUpdate(counter, words) ==
    IF words = << >> THEN counter
    ELSE LET w == Head(words)
             seen == { i \in DOMAIN counter : counter[i].word = w }
         IN  CounterUpdate(
                 IF seen = { } THEN Append(counter, [word |-> w, n |-> 1])
                 ELSE [i \in DOMAIN counter |->
                          IF i \in seen THEN [word |-> w, n |-> counter[i].n + 1]
                          ELSE counter[i]],
                 Tail(words))

\* the loop `for item in items: word_freq.update(item.word.split())`
RECURSIVE WordFreq(_, _)
WordFreq(items, counter) ==
    IF items = << >> THEN counter
    ELSE WordFreq(Tail(items), CounterUpdate(counter, Split(Head(items).word)))

\* insertion into a list sorted by descending count, before the equal ones
RECURSIVE InsertDescFirst(_, _)
InsertDescFirst(sorted, x) ==
    IF sorted = << >> THEN << x >>
    ELSE IF Head(sorted).n > x.n THEN << Head(sorted) >> \o InsertDescFirst(Tail(sorted), x)
    ELSE << x >> \o sorted

\* insertion into a list sorted by descending count, after the equal ones
RECURSIVE InsertDesc(_, _)
InsertDesc(sorted, x) ==
    IF sorted = << >> THEN << x >>
    ELSE IF Head(sorted).n >= x.n THEN << Head(sorted) >> \o InsertDesc(Tail(sorted), x)
    ELSE << x >> \o sorted

RECURSIVE SortDescUnstable(_)
SortDescUnstable(counter) ==
    IF counter = << >> THEN << >>
    ELSE InsertDescFirst(SortDescUnstable(SubSeq(counter, 1, Len(counter) - 1)),
                         counter[Len(counter)])

\* sorted(counter.items(), key=count, reverse=True): stable, so equal counts
\* stay in first-seen order
RECURSIVE SortDesc(_)
SortDesc(counter) ==
    IF counter = << >> THEN << >>
    ELSE InsertDesc(SortDesc(SubSeq(counter, 1, Len(counter) - 1)), counter[Len(counter)])

most_common_unstable(counter, n) == Take(SortDescUnstable(counter), n)

\* Counter.most_common(n)
most_common(counter, n) == Take(SortDesc(counter), n)

TopWords == 20

\* analyze_hot_search_data: None, or Some(stats) with the item count, the
\* heat statistics and the word histogram
analyze_hot_search_data(res) ==
    IF IsNone(res) \/ Get(res).total = 0 THEN None
    ELSE LET items == Get(res).items
             heat_values == SelectSeq([i \in DOMAIN items |-> items[i].heat],
                                      LAMBDA h : h > 0)
         IN  Some([total_items |-> Len(items),
                   heat_stats |->
                       [avg_heat    |-> IF Truthy(heat_values) THEN Mean(heat_values) ELSE Whole(0),
                        max_heat    |-> IF Truthy(heat_values) THEN Max(heat_values) ELSE 0,
                        min_heat    |-> IF Truthy(heat_values) THEN Minimum(heat_values) ELSE 0,
                        median_heat |-> IF Truthy(heat_values) THEN Median(heat_values) ELSE Whole(0)],
                   top_words |-> most_common(WordFreq(items, << >>), TopWords)])

RECURSIVE WordDict_first_wins(_, _)
WordDict_first_wins(items, dict) ==
    IF items = << >> THEN dict
    ELSE LET item == Head(items)
         IN  WordDict_first_wins(Tail(items),
                 IF \E i \in DOMAIN dict : dict[i].word = item.word THEN dict
                 ELSE Append(dict, item))

\* {item.word: item for item in items}: keys in first-seen order, each
\* with the last item of that word
RECURSIVE WordDict(_, _)
WordDict(items, dict) ==
    IF items = << >> THEN dict
    ELSE LET item == Head(items)
             seen == { i \in DOMAIN dict : dict[i].word = item.word }
         IN  WordDict(Tail(items),
                      IF seen = { } THEN Append(dict, item)
                      ELSE [i \in DOMAIN dict |-> IF i \in seen THEN item ELSE dict[i]])

HasWord_never(dict, word) == FALSE

\* word in dict
HasWord(dict, word) == \E i \in DOMAIN dict : dict[i].word = word

\* dict[word]
Lookup(dict, word) == dict[CHOOSE i \in DOMAIN dict : dict[i].word = word]

RankChange_reversed(current_item, previous_item) == current_item.rank - previous_item.rank

\* rank_change = previous_item.rank - current_item.rank
RankChange(current_item, previous_item) == previous_item.rank - current_item.rank

TrendListLen == 10

NoPreviousData ==
    [status |-> "no_previous_data", new_items |-> 0, removed_items |-> 0,
     rank_changes |-> << >>, new_words_list |-> << >>, removed_words_list |-> << >>]

\* the report of the `except Exception` branch
TrendError ==
    [status |-> "error", new_items |-> 0, removed_items |-> 0,
     rank_changes |-> << >>, new_words_list |-> << >>, removed_words_list |-> << >>]

\* [item.word for item in items]
WordsItems(items) == [i \in DOMAIN items |-> items[i].word]

\* generate_trend_analysis; an argument is None or Some(list), and
\* iterating a current_items of None raises the TypeError that the
\* `except Exception` branch turns into the error report
generate_trend_analysis(cur, prev) ==
    IF IsNone(prev) \/ ~Truthy(Get(prev)) THEN NoPreviousData
    ELSE IF IsNone(cur) THEN TrendError
    ELSE LET current_words == WordDict(Get(cur), << >>)
             previous_words == WordDict(Get(prev), << >>)
             new_words == SelectSeq(current_words,
                                    LAMBDA item : ~HasWord(previous_words, item.word))
             removed_words == SelectSeq(previous_words,
                                        LAMBDA item : ~HasWord(current_words, item.word))
             moved == SelectSeq(current_words,
                        LAMBDA item :
                            /\ HasWord(previous_words, item.word)
                            /\ RankChange(item, Lookup(previous_words, item.word)) /= 0)
         IN  [status |-> "ok",
              new_items |-> Len(new_words),
              removed_items |-> Len(removed_words),
              rank_changes |->
                  [i \in DOMAIN moved |->
                      [word |-> moved[i].word,
                       current_rank |-> moved[i].rank,
                       previous_rank |-> Lookup(previous_words, moved[i].word).rank,
                       change |-> RankChange(moved[i], Lookup(previous_words, moved[i].word))]],
              new_words_list |-> WordsItems(Take(new_words, TrendListLen)),
              removed_words_list |-> WordsItems(Take(removed_words, TrendListLen))]

(* ------------------------- fallback orchestrator ------------------------ *)

\* what text_content() of a matched element returns (None is the empty text),
\* or "raise" when nth()/text_content() throws
DomTexts == { EmptyStr, << " " >>, << " ", "b" >> }
DomElems == { [raises |-> FALSE, text |-> t] : t \in DomTexts }
            \cup { [raises |-> TRUE, text |-> EmptyStr] }

\* method 1 of _extract_data_from_page: the loop over
\* range(min(hot_items.count(), self.limit))
RECURSIVE ExtractDom(_, _, _, _)
ExtractDom(dom, i, n, result) ==
    IF i >= n THEN result
    ELSE LET el == dom[i + 1]
         IN  IF el.raises \/ ~Truthy(el.text)
             THEN ExtractDom(dom, i + 1, n, result)
             ELSE ExtractDom(dom, i + 1, n,
                             add_item(result, HotSearchItem(Strip(el.text), 0, i + 1, EmptyStr)))

DomHeuristic_unbounded(dom, limit) == ExtractDom(dom, 0, Len(dom), HotSearchResult(0))

DomHeuristic(dom, limit) == ExtractDom(dom, 0, Min(Len(dom), limit), HotSearchResult(0))

PrimaryOk_strict(result) == ~IsNone(result) /\ Get(result).total > 1

\* crawl_hot_search: `if result and result.total > 0`
PrimaryOk(result) == ~IsNone(result) /\ Get(result).total > 0

ExtractReturn_always(r) == Some(r)

\* the end of _extract_data_from_page: `if result.total > 0: return result`
\* and otherwise `return None`
ExtractReturn(r) == IF r.total > 0 THEN Some(r) ELSE None

(* -------------------------------- state -------------------------------- *)

VARIABLES
    config,               \* CrawlerConfig: max_retries, limit, use_playwright
    PLAYWRIGHT_AVAILABLE, \* module flag set by the playwright import
    jsonErrorIsRequestException,
                          \* whether the installed requests raises its JSON
                          \* decode error as a RequestException subclass
    use_playwright,       \* self.use_playwright
    playwright,           \* self.playwright: 0 is None, else an engine handle
    browser,              \* self.browser: 0 is None, else a browser handle
    pc,                   \* position of the caller inside crawl_hot_search
    attempt,              \* loop variable of _make_request
    events,               \* sleeps and GETs of the running _make_request
    response_data,        \* what _make_request returned
    result,               \* local `result` of crawl_hot_search
    domResult,            \* local `result` of _extract_data_from_page
    ret,                  \* value crawl_hot_search returned
    ctx,                  \* local `context` of _crawl_with_playwright (0: none)
    contexts,             \* open browser contexts: [id, browser, page open?]
    aliveEngines,         \* engine handles started and not stopped
    aliveBrowsers,        \* browsers launched and not closed
    nextId,               \* next fresh handle
    calls,                \* crawl_hot_search calls begun on this instance
    primary,              \* what super().crawl_hot_search() returned this call
    engineStarts,         \* sync_playwright().start() + launch() calls, ever
    startsThisCall,       \* ... during the running call
    extractRan,           \* _extract_data_from_page entered during this call
    startFailedNow,       \* _setup_playwright failed during this call
    startFailedEver,      \* _setup_playwright failed during some call
    probes,               \* what methods 2 and 3 of the extraction did
    closeRaised,          \* close() let an exception escape
    closeCalls,           \* close() calls made on this instance
    teardown,             \* what the latest close() did at each of its steps
    rs,                   \* a HotSearchResult under construction
    appended,             \* the items handed to rs.add_item, in call order
    current_session_dir,  \* DataSaver.current_session_dir (FALSE: None)
    files,                \* directory -> file name -> optional stored document
    lastOp,               \* the latest DataSaver operation
    loaded                \* what the latest load_json returned

crawlerVars ==
    << config, PLAYWRIGHT_AVAILABLE, jsonErrorIsRequestException, use_playwright,
       playwright, browser, pc, attempt, events, response_data, result, domResult,
       ret, ctx, contexts, aliveEngines, aliveBrowsers, nextId, calls, primary,
       engineStarts, startsThisCall, extractRan, startFailedNow,
       startFailedEver, probes, closeRaised, closeCalls, teardown >>

storeVars == << rs, appended, current_session_dir, files, lastOp, loaded >>

VARIABLES
    api_key,              \* XiaohongshuApiCrawler.api_key (None: no crawler yet)
    apiLimit,             \* its config.limit
    apiState,             \* "none", "ready", "calling", "returned", or "refused"
                          \* when the factory raised
    apiGets,              \* requests.get calls issued by the latest call
    apiResp,              \* what the server answered to the latest call
    apiRet,               \* what the latest crawl_hot_search returned
    scrapeBody,           \* the document handed to _parse_hot_search_data
    scrapeLimit,          \* the limit of that scrape crawler
    scrapeRet,            \* what _parse_hot_search_data returned for it
    heat_str,             \* the argument of _parse_heat_value
    heatRet,              \* its outcome (None until it ran)
    anInput,              \* the argument of analyze_hot_search_data
    stats,                \* what it returned (None until it ran, or null)
    analysed,             \* whether analyze_hot_search_data ran
    current_items,        \* first argument of generate_trend_analysis
    previous_items,       \* second argument
    trend,                \* what it returned (None until it ran)
    trendBack,            \* what it returned for the two arguments exchanged
    mainPc,               \* position of main() of crawl_today_with_fallback.py
    mainWhy               \* why main() left its try block

apiVars ==
    << api_key, apiLimit, apiState, apiGets, apiResp, apiRet,
       scrapeBody, scrapeLimit, scrapeRet >>

heatVars == << heat_str, heatRet >>

analysisVars ==
    << anInput, stats, analysed, current_items, previous_items, trend, trendBack >>

mainVars == << mainPc, mainWhy >>

vars == << crawlerVars, storeVars, apiVars, heatVars, analysisVars, mainVars >>

\* everything but the orchestrator, and everything but the DataSaver
nonCrawlerVars == << storeVars, apiVars, heatVars, analysisVars, mainVars >>
nonStoreVars == << crawlerVars, apiVars, heatVars, analysisVars, mainVars >>

Configs ==
    [max_retries : 0 .. MaxRetriesBound, limit : 1 .. MaxLimit, use_playwright : BOOLEAN]

NoProbes == [b |-> "none", c |-> "none"]

FallbackEnabled_or(configured, available) == configured \/ available

\* __init__: self.use_playwright = config.use_playwright and PLAYWRIGHT_AVAILABLE
FallbackEnabled(configured, available) == configured /\ available

\* XiaohongshuCrawlerWithFallback.__init__ on configuration `cfg`, in a
\* no close() yet: none of its three steps was reached
NoTeardown == [session |-> "none", browser |-> "none", engine |-> "none"]

\* process where the playwright import succeeded or not and requests raises
\* its JSON error inside or outside the RequestException hierarchy
NewCrawler(cfg, available, jsonErr) ==
    /\ config = cfg
    /\ PLAYWRIGHT_AVAILABLE = available
    /\ jsonErrorIsRequestException = jsonErr
    /\ use_playwright = FallbackEnabled(config.use_playwright, PLAYWRIGHT_AVAILABLE)
    /\ playwright = 0
    /\ browser = 0
    /\ pc = "idle"
    /\ attempt = 0
    /\ events = << >>
    /\ response_data = None
    /\ result = None
    /\ domResult = HotSearchResult(0)
    /\ ret = None
    /\ ctx = 0
    /\ contexts = { }
    /\ aliveEngines = { }
    /\ aliveBrowsers = { }
    /\ nextId = 1
    /\ calls = 0
    /\ primary = None
    /\ engineStarts = 0
    /\ startsThisCall = 0
    /\ extractRan = FALSE
    /\ startFailedNow = FALSE
    /\ startFailedEver = FALSE
    /\ probes = NoProbes
    /\ closeRaised = FALSE
    /\ closeCalls = 0
    /\ teardown = NoTeardown

\* create_crawler_with_fallback(): the configuration of the entry point
DefaultConfig == [max_retries |-> 3, limit |-> 50, use_playwright |-> TRUE]

\* DataSaver.__init__ and an empty HotSearchResult()
Dirs == { "data", "crawl_data" }
FileNames == { "a.json" }

NewStore ==
    /\ rs = HotSearchResult(0)
    /\ appended = << >>
    /\ current_session_dir = FALSE
    /\ files = [d \in Dirs |-> [n \in FileNames |-> None]]
    /\ lastOp = [op |-> "none", name |-> "a.json", data |-> HotSearchResult(0)]
    /\ loaded = None

\* an orchestrator built on any configuration, and a fresh DataSaver
\* no API crawler built and no parser called yet
NoApi ==
    /\ api_key = None
    /\ apiLimit = 0
    /\ apiState = "none"
    /\ apiGets = 0
    /\ apiResp = None
    /\ apiRet = None
    /\ scrapeBody = None
    /\ scrapeLimit = 0
    /\ scrapeRet = None

NoHeat == heat_str = EmptyStr /\ heatRet = None

\* no entry point is running
NoMain == mainPc = "none" /\ mainWhy = "none"

NoAnalysis ==
    /\ anInput = None
    /\ stats = None
    /\ analysed = FALSE
    /\ current_items = None
    /\ previous_items = None
    /\ trend = None
    /\ trendBack = None

Init ==
    \E cfg \in Configs, available \in BOOLEAN, jsonErr \in BOOLEAN :
        NewCrawler(cfg, available, jsonErr) /\ NewStore /\ NoMain /\ NoApi /\ NoHeat /\ NoAnalysis

\* the orchestrator of the entry point, and a fresh DataSaver
InitStore ==
    NewCrawler(DefaultConfig, TRUE, TRUE) /\ NewStore /\ NoMain /\ NoApi /\ NoHeat /\ NoAnalysis

(* ------------------- crawl_hot_search, step by step -------------------- *)

\* the caller enters crawl_hot_search; super().crawl_hot_search() begins
BeginFetch ==
    /\ pc \in { "idle", "done" }
    /\ calls < MaxCalls
    /\ calls' = calls + 1
    /\ pc' = "request"
    /\ attempt' = 0
    /\ events' = << >>
    /\ response_data' = None
    /\ result' = None
    /\ domResult' = HotSearchResult(0)
    /\ ret' = None
    /\ ctx' = 0
    /\ primary' = None
    /\ startsThisCall' = 0
    /\ extractRan' = FALSE
    /\ startFailedNow' = FALSE
    /\ probes' = NoProbes
    /\ UNCHANGED << config, PLAYWRIGHT_AVAILABLE, jsonErrorIsRequestException,
                    use_playwright, playwright, browser, contexts, aliveEngines,
                    aliveBrowsers, nextId, engineStarts, startFailedEver, closeRaised,
                    closeCalls, teardown >>
    /\ UNCHANGED nonCrawlerVars

\* what a step of _make_request leaves alone
RequestFrame ==
    /\ UNCHANGED << config, PLAYWRIGHT_AVAILABLE, jsonErrorIsRequestException,
                    use_playwright, playwright, browser, domResult, ret, ctx,
                    contexts, aliveEngines, aliveBrowsers, nextId, calls,
                    engineStarts, startsThisCall, extractRan, startFailedNow,
                    startFailedEver, probes, closeRaised, closeCalls, teardown >>
    /\ UNCHANGED nonCrawlerVars

\* _make_request returned (or raised into crawl_hot_search's handler) with
\* response `r`: crawl_hot_search parses it and the orchestrator gets the result
PrimaryReturns(r) ==
    /\ response_data' = r
    /\ result' = ParseResponse(r, config.limit)
    /\ primary' = ParseResponse(r, config.limit)
    /\ pc' = "decide"

\* range(max_retries) is empty: _make_request falls to its final `return None`
RequestNoAttempt ==
    /\ pc = "request"
    /\ attempt >= config.max_retries
    /\ PrimaryReturns(None)
    /\ UNCHANGED << attempt, events >>
    /\ RequestFrame

\* _add_random_delay at the top of an attempt
JitterSleep ==
    /\ pc = "request"
    /\ attempt < config.max_retries
    /\ events' = Append(events, "jitter")
    /\ pc' = "get"
    /\ UNCHANGED << attempt, response_data, result, primary >>
    /\ RequestFrame

RequestFailed_offbyone ==
    IF attempt = config.max_retries
    THEN PrimaryReturns(None)
    ELSE /\ pc' = "backoff"
         /\ UNCHANGED << response_data, result, primary >>

\* the except branch of _make_request
RequestFailed ==
    IF attempt = config.max_retries - 1
    THEN PrimaryReturns(None)
    ELSE /\ pc' = "backoff"
         /\ UNCHANGED << response_data, result, primary >>

\* session.get + raise_for_status + response.json() succeed with `body`
GetSucceeds(body) ==
    /\ pc = "get"
    /\ events' = Append(events, "get_ok")
    /\ PrimaryReturns(Some(body))
    /\ UNCHANGED attempt
    /\ RequestFrame

\* session.get or raise_for_status raises a RequestException
GetFails ==
    /\ pc = "get"
    /\ events' = Append(events, "get_fail")
    /\ RequestFailed
    /\ UNCHANGED attempt
    /\ RequestFrame

\* a 2xx response whose body is not JSON: response.json() raises
GetInvalidJson ==
    /\ pc = "get"
    /\ events' = Append(events, "get_badjson")
    /\ IF jsonErrorIsRequestException THEN RequestFailed ELSE PrimaryReturns(None)
    /\ UNCHANGED attempt
    /\ RequestFrame

\* the exponential backoff sleep, then the next iteration
BackoffSleep ==
    /\ pc = "backoff"
    /\ events' = Append(events, "backoff")
    /\ attempt' = attempt + 1
    /\ pc' = "request"
    /\ UNCHANGED << response_data, result, primary >>
    /\ RequestFrame

\* what a step after the primary strategy leaves alone; the locals of the
\* returned _make_request / super().crawl_hot_search() are gone
FallbackFrame ==
    /\ attempt' = 0
    /\ events' = << >>
    /\ response_data' = None
    /\ UNCHANGED << config, PLAYWRIGHT_AVAILABLE, jsonErrorIsRequestException,
                    calls, primary, closeRaised, closeCalls, teardown >>
    /\ UNCHANGED nonCrawlerVars

\* crawl_hot_search returns `r`
Return(r) ==
    /\ ret' = r
    /\ pc' = "done"

\* `if result and result.total > 0: return result`
ReturnPrimary ==
    /\ pc = "decide"
    /\ PrimaryOk(result)
    /\ Return(result)
    /\ UNCHANGED << use_playwright, playwright, browser, result, domResult, ctx,
                    contexts, aliveEngines, aliveBrowsers, nextId, engineStarts,
                    startsThisCall, extractRan, startFailedNow, startFailedEver,
                    probes >>
    /\ FallbackFrame

\* `if self.use_playwright` is false: the final `return None`
ReturnNoFallback ==
    /\ pc = "decide"
    /\ ~PrimaryOk(result)
    /\ ~use_playwright
    /\ Return(None)
    /\ UNCHANGED << use_playwright, playwright, browser, result, domResult, ctx,
                    contexts, aliveEngines, aliveBrowsers, nextId, engineStarts,
                    startsThisCall, extractRan, startFailedNow, startFailedEver,
                    probes >>
    /\ FallbackFrame

SetupFailed_keepflag ==
    /\ UNCHANGED use_playwright
    /\ startFailedNow' = TRUE
    /\ startFailedEver' = TRUE
    /\ Return(None)

\* the except branch of _setup_playwright, then crawl_hot_search's `return None`
SetupFailed ==
    /\ use_playwright' = FALSE
    /\ startFailedNow' = TRUE
    /\ startFailedEver' = TRUE
    /\ Return(None)

\* _setup_playwright: sync_playwright().start() succeeds
EngineStartOk ==
    /\ pc = "decide"
    /\ ~PrimaryOk(result)
    /\ use_playwright
    /\ playwright' = nextId
    /\ aliveEngines' = aliveEngines \cup { nextId }
    /\ nextId' = nextId + 1
    /\ engineStarts' = engineStarts + 1
    /\ startsThisCall' = startsThisCall + 1
    /\ pc' = "launch"
    /\ UNCHANGED << use_playwright, browser, result, domResult, ret, ctx, contexts,
                    aliveBrowsers, extractRan, startFailedNow, startFailedEver, probes >>
    /\ FallbackFrame

\* _setup_playwright: sync_playwright().start() raises
EngineStartFails ==
    /\ pc = "decide"
    /\ ~PrimaryOk(result)
    /\ use_playwright
    /\ engineStarts' = engineStarts + 1
    /\ startsThisCall' = startsThisCall + 1
    /\ SetupFailed
    /\ UNCHANGED << playwright, browser, result, domResult, ctx, contexts,
                    aliveEngines, aliveBrowsers, nextId, extractRan, probes >>
    /\ FallbackFrame

\* _setup_playwright: browser_type.launch() succeeds, _setup_playwright
\* returns True and _crawl_with_playwright begins
LaunchOk ==
    /\ pc = "launch"
    /\ browser' = nextId
    /\ aliveBrowsers' = aliveBrowsers \cup { nextId }
    /\ nextId' = nextId + 1
    /\ engineStarts' = engineStarts + 1
    /\ startsThisCall' = startsThisCall + 1
    /\ pc' = "new_context"
    /\ UNCHANGED << use_playwright, playwright, result, domResult, ret, ctx, contexts,
                    aliveEngines, extractRan, startFailedNow, startFailedEver, probes >>
    /\ FallbackFrame

\* _setup_playwright: browser_type.launch() raises
LaunchFails ==
    /\ pc = "launch"
    /\ engineStarts' = engineStarts + 1
    /\ startsThisCall' = startsThisCall + 1
    /\ SetupFailed
    /\ UNCHANGED << playwright, browser, result, domResult, ctx, contexts,
                    aliveEngines, aliveBrowsers, nextId, extractRan, probes >>
    /\ FallbackFrame

\* what a step of _crawl_with_playwright leaves alone
BrowserFrame ==
    /\ UNCHANGED << use_playwright, playwright, browser, aliveEngines, aliveBrowsers,
                    engineStarts, startsThisCall, startFailedNow, startFailedEver >>
    /\ FallbackFrame

\* the except branch of _crawl_with_playwright: `return None`, which
\* crawl_hot_search returns in turn
CrawlRaised ==
    /\ result' = None
    /\ Return(None)

\* browser.new_context(...) succeeds
NewContextOk ==
    /\ pc = "new_context"
    /\ browser /= 0
    /\ ctx' = nextId
    /\ contexts' = contexts \cup { [id |-> nextId, browser |-> browser, page |-> FALSE] }
    /\ nextId' = nextId + 1
    /\ pc' = "new_page"
    /\ UNCHANGED << result, domResult, ret, extractRan, probes >>
    /\ BrowserFrame

\* browser.new_context(...) raises
NewContextFails ==
    /\ pc = "new_context"
    /\ browser /= 0
    /\ CrawlRaised
    /\ UNCHANGED << domResult, ctx, contexts, nextId, extractRan, probes >>
    /\ BrowserFrame

\* context.new_page() succeeds
NewPageOk ==
    /\ pc = "new_page"
    /\ contexts' = { IF c.id = ctx THEN [c EXCEPT !.page = TRUE] ELSE c : c \in contexts }
    /\ pc' = "goto"
    /\ UNCHANGED << result, domResult, ret, ctx, nextId, extractRan, probes >>
    /\ BrowserFrame

\* context.new_page() raises
NewPageFails ==
    /\ pc = "new_page"
    /\ CrawlRaised
    /\ UNCHANGED << domResult, ctx, contexts, nextId, extractRan, probes >>
    /\ BrowserFrame

\* page.goto(...), the settle sleep and page.content() succeed
GotoOk ==
    /\ pc = "goto"
    /\ pc' = "extract_a"
    /\ extractRan' = TRUE
    /\ UNCHANGED << result, domResult, ret, ctx, contexts, nextId, probes >>
    /\ BrowserFrame

\* page.goto(...) or page.content() raises
GotoFails ==
    /\ pc = "goto"
    /\ CrawlRaised
    /\ UNCHANGED << domResult, ctx, contexts, nextId, extractRan, probes >>
    /\ BrowserFrame

\* method 1 of _extract_data_from_page on a page whose locator matches `dom`
HeuristicA(dom) ==
    /\ pc = "extract_a"
    /\ domResult' = DomHeuristic(dom, config.limit)
    /\ pc' = "extract_b"
    /\ UNCHANGED << result, ret, ctx, contexts, nextId, extractRan, probes >>
    /\ BrowserFrame

\* hot_items.count() raises: the outer handler returns None
HeuristicARaises ==
    /\ pc = "extract_a"
    /\ result' = None
    /\ pc' = "close_page"
    /\ UNCHANGED << domResult, ret, ctx, contexts, nextId, extractRan, probes >>
    /\ BrowserFrame

\* method 2: page.evaluate finds a global object, finds none, or raises
\* (the inner handler swallows the exception)
ProbeB(outcome) ==
    /\ pc = "extract_b"
    /\ probes' = [probes EXCEPT !.b = outcome]
    /\ pc' = "extract_c"
    /\ UNCHANGED << result, domResult, ret, ctx, contexts, nextId, extractRan >>
    /\ BrowserFrame

\* method 3: the script handles are listed and scanned (a script whose
\* text_content() raises is skipped), then the function returns
ProbeC(outcome) ==
    /\ pc = "extract_c"
    /\ probes' = [probes EXCEPT !.c = outcome]
    /\ result' = ExtractReturn(domResult)
    /\ pc' = "close_page"
    /\ UNCHANGED << domResult, ret, ctx, contexts, nextId, extractRan >>
    /\ BrowserFrame

\* method 3: page.locator('script').element_handles() raises outside any
\* inner handler, so the outer handler returns None
ProbeCRaises ==
    /\ pc = "extract_c"
    /\ probes' = [probes EXCEPT !.c = "handles_raised"]
    /\ result' = None
    /\ pc' = "close_page"
    /\ UNCHANGED << domResult, ret, ctx, contexts, nextId, extractRan >>
    /\ BrowserFrame

\* page.close() and context.close() succeed; `return result`
ClosePageOk ==
    /\ pc = "close_page"
    /\ contexts' = { c \in contexts : c.id /= ctx }
    /\ Return(result)
    /\ UNCHANGED << result, domResult, ctx, nextId, extractRan, probes >>
    /\ BrowserFrame

\* page.close() raises
PageCloseFails ==
    /\ pc = "close_page"
    /\ CrawlRaised
    /\ UNCHANGED << domResult, ctx, contexts, nextId, extractRan, probes >>
    /\ BrowserFrame

\* page.close() succeeds and context.close() raises
ContextCloseFails ==
    /\ pc = "close_page"
    /\ contexts' = { IF c.id = ctx THEN [c EXCEPT !.page = FALSE] ELSE c : c \in contexts }
    /\ CrawlRaised
    /\ UNCHANGED << domResult, ctx, nextId, extractRan, probes >>
    /\ BrowserFrame

\* what close() did at one of its guarded steps, given the handle it tests,
\* whether an earlier unguarded step raised, and whether this step raises
TeardownStep(handle, escaped, raises) ==
    IF escaped THEN "none"
    ELSE IF handle = 0 THEN "skipped"
    ELSE IF raises THEN "raised"
    ELSE "done"

\* XiaohongshuCrawlerWithFallback.close(): session.close(), browser.close(),
\* playwright.stop(); each call may raise.  The locals of the last
\* _crawl_with_playwright / _extract_data_from_page frame are gone by then.
Close(sessionRaises, browserRaises, stopRaises) ==
    /\ pc \in { "idle", "done", "interrupted" }
    /\ pc' = "closed"
    /\ closeCalls' = closeCalls + 1
    /\ closeRaised' = sessionRaises
    /\ teardown' = [session |-> IF sessionRaises THEN "raised" ELSE "done",
                    browser |-> TeardownStep(browser, sessionRaises, browserRaises),
                    engine |-> TeardownStep(playwright, sessionRaises, stopRaises)]
    /\ IF sessionRaises \/ browser = 0 \/ browserRaises
       THEN UNCHANGED << aliveBrowsers, contexts >>
       ELSE /\ aliveBrowsers' = aliveBrowsers \ { browser }
            /\ contexts' = { c \in contexts : c.browser /= browser }
    /\ IF sessionRaises \/ playwright = 0 \/ stopRaises
       THEN UNCHANGED aliveEngines
       ELSE aliveEngines' = aliveEngines \ { playwright }
    /\ result' = None
    /\ domResult' = HotSearchResult(0)
    /\ ctx' = 0
    /\ probes' = NoProbes
    /\ UNCHANGED << config, PLAYWRIGHT_AVAILABLE, jsonErrorIsRequestException,
                    use_playwright, playwright, browser, attempt, events,
                    response_data, ret, nextId, calls, primary, engineStarts,
                    startsThisCall, extractRan, startFailedNow, startFailedEver >>
    /\ UNCHANGED nonCrawlerVars

DomPages == SeqsUpTo(DomElems, MaxDom)

\* a step of a crawl_hot_search call
FetchStep ==
    \/ BeginFetch
    \/ RequestNoAttempt
    \/ JitterSleep
    \/ \E body \in Bodies : GetSucceeds(body)
    \/ GetFails
    \/ GetInvalidJson
    \/ BackoffSleep
    \/ ReturnPrimary
    \/ ReturnNoFallback
    \/ EngineStartOk
    \/ EngineStartFails
    \/ LaunchOk
    \/ LaunchFails
    \/ NewContextOk
    \/ NewContextFails
    \/ NewPageOk
    \/ NewPageFails
    \/ GotoOk
    \/ GotoFails
    \/ \E dom \in DomPages : HeuristicA(dom)
    \/ HeuristicARaises
    \/ \E o \in { "found", "absent", "raised" } : ProbeB(o)
    \/ \E o \in { "scanned", "script_raised" } : ProbeC(o)
    \/ ProbeCRaises
    \/ ClosePageOk
    \/ PageCloseFails
    \/ ContextCloseFails

NextCrawler ==
    \/ FetchStep
    \/ \E s \in BOOLEAN, b \in BOOLEAN, p \in BOOLEAN : Close(s, b, p)

\* the orchestrator and its primary strategy
Spec == Init /\ [][NextCrawler]_vars

\* one step of the primary strategy's request loop
RequestStep ==
    \/ RequestNoAttempt
    \/ JitterSleep
    \/ \E body \in Bodies : GetSucceeds(body)
    \/ GetFails
    \/ GetInvalidJson
    \/ BackoffSleep

NextRequest == BeginFetch \/ RequestStep

\* the primary strategy alone; a sleep ends and a GET returns or times out,
\* so a running request loop always takes its next step
SpecRequest ==
    Init /\ [][NextRequest]_vars /\ WF_vars(RequestStep)

(* ------------------------ claims: the orchestrator ---------------------- *)

PrimaryGood == ~IsNone(primary) /\ Get(primary).total > 0

\* C1: when the primary strategy returned a non-null ResultSet with
\* total > 0, crawl_hot_search returns that ResultSet, and during that call
\* no engine start is attempted and no extraction step runs, whatever
\* use_playwright is.
C1_PrimarySuccessSkipsBrowser ==
    PrimaryGood =>
        /\ pc \in { "decide", "done", "closed" }
        /\ startsThisCall = 0
        /\ ~extractRan
        /\ (pc = "done" => ret = primary)

C1_Witness ==
    /\ pc = "done"
    /\ PrimaryGood
    /\ use_playwright
    /\ ret = primary
    /\ Get(ret).total = 1

\* C2: with browser fallback disabled in the configuration, a call whose
\* primary result is null or empty returns null, and no engine is ever
\* started on the instance.
C2_DisabledFallbackReturnsNull ==
    ~config.use_playwright =>
        /\ engineStarts = 0
        /\ playwright = 0
        /\ aliveEngines = { }
        /\ (pc = "done" /\ ~PrimaryGood => IsNone(ret))

C2_Witness ==
    /\ ~config.use_playwright
    /\ PLAYWRIGHT_AVAILABLE
    /\ pc = "done"
    /\ primary = Some(HotSearchResult(0))
    /\ IsNone(ret)

\* method 1 of the extraction ran to its end during this call
HeuristicADone == probes.b /= "none"

\* page.close() and context.close() of this call both succeeded
PageAndContextClosed == ctx /= 0 /\ \A c \in contexts : c.id /= ctx

\* C3 (as claimed): once the page is loaded and method 1 has finished, the
\* call returns the ResultSet of method 1 when it holds at least one item and
\* null when it holds none, whatever methods 2 and 3 find or raise.  Stated
\* for the calls that went on to close their page and context normally.
C3_DomItemsAlwaysReturned ==
    pc = "done" /\ HeuristicADone /\ PageAndContextClosed =>
        ret = (IF domResult.total > 0 THEN Some(domResult) ELSE None)

\* C4 (as claimed): no exit path of the fallback attempt leaves a browser
\* context or page open.
C4_NoContextLeftOpen ==
    pc = "done" => contexts = { }

\* C5: once _setup_playwright has failed, that call returns null, no later
\* call attempts to start the engine or launch a browser again, and a later
\* call whose primary result is null or empty returns null.
C5_StartFailureIsPermanent ==
    /\ [](startFailedNow /\ pc = "done" => IsNone(ret))
    /\ [](startFailedEver /\ pc = "done" /\ ~PrimaryGood => IsNone(ret))
    /\ [][startFailedEver => engineStarts' = engineStarts]_vars

C5_Witness ==
    /\ config.use_playwright
    /\ startFailedEver
    /\ ~startFailedNow
    /\ calls = 2
    /\ pc = "done"
    /\ ~PrimaryGood
    /\ IsNone(ret)

(* ----------------------- claims: the request loop ----------------------- *)

IsGet(e) == e \in { "get_ok", "get_fail", "get_badjson" }

RECURSIVE Count(_, _)
Count(s, S) ==
    IF s = << >> THEN 0 ELSE (IF Head(s) \in S THEN 1 ELSE 0) + Count(Tail(s), S)

Gets == Count(events, { "get_ok", "get_fail", "get_badjson" })
Backoffs == Count(events, { "backoff" })

\* a GET whose attempt ended in the except branch
IsFailure(e) ==
    e = "get_fail" \/ (e = "get_badjson" /\ jsonErrorIsRequestException)

\* every GET has exactly one jitter sleep right before it
JitterBeforeEveryGet ==
    \A i \in 1 .. Len(events) :
        IsGet(events[i]) =>
            /\ i > 1
            /\ events[i - 1] = "jitter"
            /\ (i > 2 => events[i - 2] /= "jitter")

\* the loop has returned with its first success on attempt k = Gets
SucceededAtLast ==
    /\ pc = "decide"
    /\ events /= << >>
    /\ events[Len(events)] = "get_ok"

\* the loop has returned and every attempt ended in the except branch
AllAttemptsFailed ==
    /\ pc = "decide"
    /\ \A i \in 1 .. Len(events) : IsGet(events[i]) => IsFailure(events[i])

InRequestLoop == pc \in { "request", "get", "backoff" }

\* C6: with max_retries = N >= 1, a first success on attempt k <= N comes
\* after exactly k GETs and k - 1 backoff sleeps and returns the body; when
\* every attempt fails there are exactly N GETs and N - 1 backoff sleeps,
\* none after the last failure, and the result is null; every GET directly
\* follows exactly one jitter sleep; the loop terminates.
C6_RetryLoop ==
    /\ [](config.max_retries >= 1 =>
            /\ JitterBeforeEveryGet
            /\ Gets <= config.max_retries
            /\ (SucceededAtLast =>
                  /\ Count(SubSeq(events, 1, Len(events) - 1), { "get_ok" }) = 0
                  /\ Backoffs = Gets - 1
                  /\ ~IsNone(response_data))
            /\ (AllAttemptsFailed =>
                  /\ Gets = config.max_retries
                  /\ Backoffs = config.max_retries - 1
                  /\ IsGet(events[Len(events)])
                  /\ IsNone(response_data)
                  /\ IsNone(primary)))
    /\ (InRequestLoop ~> pc = "decide")

C6_Witness ==
    /\ config.max_retries = 3
    /\ pc = "decide"
    /\ events = << "jitter", "get_fail", "backoff", "jitter", "get_fail", "backoff",
                   "jitter", "get_ok" >>
    /\ ~IsNone(response_data)

\* C7 (as claimed): a 2xx response whose body is not JSON, or lacks the
\* 'data' key, ends the call with null, and no GET follows it.
C7_ParseErrorIsTerminal ==
    /\ \A i \in 1 .. Len(events) : events[i] = "get_badjson" => i = Len(events)
    /\ (pc = "decide" /\ events /= << >> /\ events[Len(events)] = "get_badjson"
            => IsNone(primary))
    /\ (pc = "decide" /\ ~IsNone(response_data) /\ Get(response_data).kind = "nokey"
            => IsNone(primary))

(* ----------------------- result model and DataSaver --------------------- *)

\* the items handed to add_item and stored in files
ItemPool ==
    { HotSearchItem(<< "a" >>, 3, 1, EmptyStr),
      [word |-> << "b" >>, heat |-> 0, rank |-> 2, url |-> << "u" >>,
       category |-> Some(<< "c" >>), tags |-> << << "t" >>, << "s" >> >>] }

\* save_json: the dict written for one item
ItemToDict(item) ==
    [word |-> item.word, heat |-> item.heat, rank |-> item.rank, url |-> item.url,
     category |-> item.category, tags |-> item.tags]

\* load_json: the HotSearchItem built from one stored dict
DictToItem(d) ==
    [word |-> d.word, heat |-> d.heat, rank |-> d.rank, url |-> d.url,
     category |-> d.category, tags |-> d.tags]

\* save_json: the document json.dump writes
ResultToDoc(data) ==
    [total |-> data.total,
     items |-> [i \in 1 .. Len(data.items) |-> ItemToDict(data.items[i])]]

RECURSIVE LoadItems(_, _)
LoadItems(res, dicts) ==
    IF dicts = << >> THEN res
    ELSE LoadItems(add_item(res, DictToItem(Head(dicts))), Tail(dicts))

\* load_json: HotSearchResult(total=stored total), then add_item per stored item
DocToResult(doc) == LoadItems(HotSearchResult(doc.total), doc.items)

\* save_json: the directory the file goes to
SaveDir(save_to_crawl_data) ==
    IF save_to_crawl_data /\ current_session_dir THEN "crawl_data" ELSE "data"

\* load_json: the directory the file is read from
LoadDir == "data"

\* documents found in the data directory that this process did not write
ForeignDocs ==
    [total : 0 .. MaxItems,
     items : SeqsUpTo({ ItemToDict(i) : i \in ItemPool }, MaxForeignItems)]

NoOp == [op |-> "none", name |-> "a.json", data |-> HotSearchResult(0)]

\* result = HotSearchResult()
NewResult ==
    /\ rs' = HotSearchResult(0)
    /\ appended' = << >>
    /\ UNCHANGED << current_session_dir, files, lastOp, loaded >>
    /\ UNCHANGED nonStoreVars

\* rs.add_item(item)
AddItem(item) ==
    /\ Len(rs.items) < MaxItems
    /\ rs' = add_item(rs, item)
    /\ appended' = Append(appended, item)
    /\ UNCHANGED << current_session_dir, files, lastOp, loaded >>
    /\ UNCHANGED nonStoreVars

\* DataSaver.create_session_directory
CreateSessionDirectory ==
    /\ current_session_dir' = TRUE
    /\ lastOp' = NoOp
    /\ UNCHANGED << rs, appended, files, loaded >>
    /\ UNCHANGED nonStoreVars

\* DataSaver.save_json(rs, name, save_to_crawl_data)
SaveJson(name, save_to_crawl_data) ==
    /\ files' = [files EXCEPT ![SaveDir(save_to_crawl_data)][name] = Some(ResultToDoc(rs))]
    /\ lastOp' = [op |-> IF save_to_crawl_data THEN "save" ELSE "save_to_data",
                  name |-> name, data |-> rs]
    /\ UNCHANGED << rs, appended, current_session_dir, loaded >>
    /\ UNCHANGED nonStoreVars

\* a file of the data directory written from outside
ForeignFile(name, doc) ==
    /\ files' = [files EXCEPT !["data"][name] = Some(doc)]
    /\ lastOp' = NoOp
    /\ UNCHANGED << rs, appended, current_session_dir, loaded >>
    /\ UNCHANGED nonStoreVars

\* DataSaver.load_json(name): None when open() fails, else the rebuilt result
LoadJson(name) ==
    /\ loaded' = IF IsNone(files[LoadDir][name]) THEN None
                 ELSE Some(DocToResult(Get(files[LoadDir][name])))
    /\ lastOp' = IF lastOp.op = "save" /\ lastOp.name = name
                 THEN [lastOp EXCEPT !.op = "load_after_save"]
                 ELSE [NoOp EXCEPT !.op = "load"]
    /\ UNCHANGED << rs, appended, current_session_dir, files >>
    /\ UNCHANGED nonStoreVars

NextStore ==
    \/ NewResult
    \/ \E item \in ItemPool : AddItem(item)
    \/ CreateSessionDirectory
    \/ \E name \in FileNames, flag \in BOOLEAN : SaveJson(name, flag)
    \/ \E name \in FileNames, doc \in ForeignDocs : ForeignFile(name, doc)
    \/ \E name \in FileNames : LoadJson(name)

\* the result model and the JSON persistence
SpecStore == InitStore /\ [][NextStore]_vars

(* --------------------- claims: result model, JSON ----------------------- *)

\* C8: a ResultSet created empty has, after every add_item, total equal to
\* the number of its items, and holds the appended items in append order.
C8_TotalTracksAppends ==
    /\ rs.total = Len(rs.items)
    /\ rs.items = appended

C8_Witness ==
    /\ Len(appended) = 2
    /\ appended[1] /= appended[2]
    /\ rs.items = appended
    /\ rs.total = 2

\* C9 (as claimed): every ResultSet built by construction, add_item or
\* load_json has total equal to its number of items, also when the loaded
\* file stores another total.
C9_TotalNeverIndependent ==
    /\ rs.total = Len(rs.items)
    /\ (~IsNone(loaded) => Get(loaded).total = Len(Get(loaded).items))

\* C10 (as claimed): load_json(name) right after save_json(r, name) returns a
\* ResultSet with the items and total of r, in every state of the DataSaver.
C10_JsonRoundTrip ==
    lastOp.op = "load_after_save" =>
        /\ ~IsNone(loaded)
        /\ Get(loaded).items = lastOp.data.items
        /\ Get(loaded).total = lastOp.data.total

(* ------------------ the API crawler and the two parsers ---------------- *)

\* a process runs one strategy: the entry points build either the scrape
\* crawler or the API crawler
ApiKeys == { None, Some(EmptyStr), Some(<< "k" >>) }

\* XiaohongshuApiCrawler(api_key, config): the key is stored unchecked
NewApiCrawler(key, limit) ==
    /\ apiState = "none" /\ IsNone(scrapeBody)
    /\ api_key' = key
    /\ apiLimit' = limit
    /\ apiState' = "ready"
    /\ UNCHANGED << apiGets, apiResp, apiRet, scrapeBody, scrapeLimit, scrapeRet >>
    /\ UNCHANGED << crawlerVars, storeVars, heatVars, analysisVars, mainVars >>

\* create_api_crawler(arg) in an environment where the variable is `env`
CreateApiCrawler(arg, env) ==
    /\ apiState = "none" /\ IsNone(scrapeBody)
    /\ IF IsNone(FactoryKey(arg, env))
       THEN apiState' = "refused" /\ UNCHANGED << api_key, apiLimit >>
       ELSE /\ api_key' = FactoryKey(arg, env)
            /\ apiLimit' = FactoryLimit
            /\ apiState' = "ready"
    /\ UNCHANGED << apiGets, apiResp, apiRet, scrapeBody, scrapeLimit, scrapeRet >>
    /\ UNCHANGED << crawlerVars, storeVars, heatVars, analysisVars, mainVars >>

\* crawl_hot_search entered: nothing is tested before _make_api_request
ApiCrawlBegin ==
    /\ apiState \in { "ready", "returned" }
    /\ apiState' = "calling"
    /\ apiGets' = 0
    /\ apiResp' = None
    /\ apiRet' = None
    /\ UNCHANGED << api_key, apiLimit, scrapeBody, scrapeLimit, scrapeRet >>
    /\ UNCHANGED << crawlerVars, storeVars, heatVars, analysisVars, mainVars >>

\* requests.get is called and answered by `resp`; the call returns
ApiCallEnds(resp) ==
    /\ apiGets' = apiGets + 1
    /\ apiResp' = Some(resp)
    /\ apiRet' = ApiCrawlResult(_make_api_request(resp), apiLimit)
    /\ apiState' = "returned"
    /\ UNCHANGED << api_key, apiLimit, scrapeBody, scrapeLimit, scrapeRet >>
    /\ UNCHANGED << crawlerVars, storeVars, heatVars, analysisVars, mainVars >>

ApiRequestFails ==
    apiState = "calling" /\ \E resp \in ApiFailures : ApiCallEnds(resp)

ApiRequestAnswered ==
    apiState = "calling" /\ \E resp \in ApiBodies : ApiCallEnds(resp)

\* XiaohongshuCrawler(limit)._parse_hot_search_data(body)
ParseScrapeBody ==
    /\ apiState = "none" /\ IsNone(scrapeBody)
    /\ \E body \in ScrapeBodies, limit \in 1 .. MaxLimit :
        /\ scrapeBody' = Some(body)
        /\ scrapeLimit' = limit
        /\ scrapeRet' = _parse_hot_search_data(body, limit)
    /\ UNCHANGED << api_key, apiLimit, apiState, apiGets, apiResp, apiRet >>
    /\ UNCHANGED << crawlerVars, storeVars, heatVars, analysisVars, mainVars >>

InitApi ==
    NewCrawler(DefaultConfig, TRUE, TRUE) /\ NewStore /\ NoMain /\ NoApi /\ NoHeat /\ NoAnalysis

NextApi ==
    \/ \E key \in ApiKeys, limit \in 1 .. MaxLimit : NewApiCrawler(key, limit)
    \/ \E arg \in ApiKeys, env \in ApiKeys : CreateApiCrawler(arg, env)
    \/ ApiCrawlBegin
    \/ ApiRequestFails
    \/ ApiRequestAnswered
    \/ ParseScrapeBody

SpecApi == InitApi /\ [][NextApi]_vars

\* the crawler holds no credential: None or the empty string
CredentialAbsent == IsNone(api_key) \/ ~Truthy(Get(api_key))

\* C11: with an absent credential crawl_hot_search returns null and issues
\* no GET
C11_NoCredentialNoRequest ==
    apiState \in { "calling", "returned" } /\ CredentialAbsent
        => apiGets = 0 /\ IsNone(apiRet)

\* the answer to the latest call made the call fail: no answer, non-200
\* status, unparsable body, or a body whose code is not 200
ApiAnswerIsFailure ==
    \/ Get(apiResp).kind \in { "transport", "status", "badjson", "notobject" }
    \/ Get(apiResp).kind = "body" /\ Get(apiResp).code /= 200

\* C12: a call issues at most one GET, and after a failed answer it returns
\* null with that single GET made
C12_SingleRequestNoRetry ==
    /\ apiGets <= 1
    /\ apiState = "returned" =>
           /\ apiGets = 1
           /\ ApiAnswerIsFailure => IsNone(apiRet)

C12_Witness ==
    /\ apiState = "returned"
    /\ Get(apiResp).kind = "body" /\ Get(apiResp).code = 400
    /\ Get(apiResp).data /= << >>
    /\ Truthy(ApiWord(Get(apiResp).data[1]))
    /\ apiGets = 1
    /\ IsNone(apiRet)

\* a successful answer: HTTP 200 and body code 200
ApiAnswerOk ==
    apiState = "returned" /\ Get(apiResp).kind = "body" /\ Get(apiResp).code = 200

\* the entries the API parser looks at, and those that are well formed: a
\* non-empty term, and nothing in the entry that makes construction raise
ApiSource == Take(Get(apiResp).data, apiLimit)
ApiWellFormed(e) ==
    /\ ~IsNone(e.name) /\ Get(e.name) /= EmptyStr
    /\ e.rank.kind /= "null"
    /\ e.viewnum /= << "i", "n", "f" >>

\* the same for the scrape parser
ScrapeSource == Take(Get(scrapeBody).data, scrapeLimit)
ScrapeWellFormed(e) == e.word /= EmptyStr /\ ~IsNone(e.heat)

WordsOf(items) == [i \in DOMAIN items |-> items[i].word]

\* C13: both parsers return, for a valid source list, exactly the well-formed
\* entries among the first `limit`, in source order, and never null
C13_BadEntriesAreSkipped ==
    /\ ApiAnswerOk =>
           /\ ~IsNone(apiRet)
           /\ WordsOf(Get(apiRet).items)
                  = [i \in DOMAIN SelectSeq(ApiSource, ApiWellFormed) |->
                         Get(SelectSeq(ApiSource, ApiWellFormed)[i].name)]
           /\ Get(apiRet).total = Len(SelectSeq(ApiSource, ApiWellFormed))
    /\ ~IsNone(scrapeBody) /\ Get(scrapeBody).kind = "dict" =>
           /\ ~IsNone(scrapeRet)
           /\ WordsOf(Get(scrapeRet).items)
                  = [i \in DOMAIN SelectSeq(ScrapeSource, ScrapeWellFormed) |->
                         SelectSeq(ScrapeSource, ScrapeWellFormed)[i].word]
           /\ Get(scrapeRet).total = Len(SelectSeq(ScrapeSource, ScrapeWellFormed))

\* a malformed entry ahead of a well-formed one, which is returned
C13_Witness ==
    /\ ApiAnswerOk
    /\ Len(ApiSource) = 2
    /\ ApiSource[1].rank.kind = "null" /\ ApiWellFormed(ApiSource[2])
    /\ ~IsNone(apiRet)
    /\ WordsOf(Get(apiRet).items) = << Get(ApiSource[2].name) >>

\* positions (1-based, in the truncated source list) of the entries that
\* satisfy P, in order
Positions(source, P(_)) ==
    SelectSeq([i \in DOMAIN source |-> i], LAMBDA i : P(source[i]))

\* the rank an entry at position i is due: the declared one, else i
DueRank(e, i) == IF e.rank.kind = "absent" THEN i ELSE e.rank.v

HasTerm(e) == ~IsNone(e.name) /\ Get(e.name) /= EmptyStr
HeatParses(e) == e.viewnum /= << "i", "n", "f" >>

\* C14 as stated: every entry with a non-empty term (and a heat string the
\* heat parser takes) is accepted whatever its declared rank, with its
\* declared rank or else its position
TermAndHeat(e) == HasTerm(e) /\ HeatParses(e)
C14_AcceptedWhateverRank ==
    ApiAnswerOk /\ ~IsNone(apiRet) =>
        LET pos == Positions(ApiSource, TermAndHeat)
        IN  /\ Len(Get(apiRet).items) = Len(pos)
            /\ \A j \in DOMAIN pos :
                   j \in DOMAIN Get(apiRet).items =>
                       Get(apiRet).items[j].rank = DueRank(ApiSource[pos[j]], pos[j])

\* C14, amended: the accepted entries are those with a non-empty term whose
\* declared rank, if any, converts to an integer and whose construction
\* succeeds; each gets its declared rank, else its 1-based position in the
\* truncated source list, skipped entries counted
C14_RankDeclaredOrPosition ==
    ApiAnswerOk /\ ~IsNone(apiRet) =>
        LET pos == Positions(ApiSource, ApiWellFormed)
        IN  /\ Len(Get(apiRet).items) = Len(pos)
            /\ \A j \in DOMAIN pos :
                   /\ Get(apiRet).items[j].word = Get(ApiSource[pos[j]].name)
                   /\ Get(apiRet).items[j].rank = DueRank(ApiSource[pos[j]], pos[j])

\* an entry with a term and a null rank is skipped, and the entry after it,
\* which declares no rank, gets rank 2 although it is the first item
C14_Witness ==
    /\ ApiAnswerOk /\ ~IsNone(apiRet)
    /\ Len(ApiSource) = 2
    /\ HasTerm(ApiSource[1]) /\ HeatParses(ApiSource[1])
    /\ ApiSource[1].rank.kind = "null"
    /\ ApiWellFormed(ApiSource[2]) /\ ApiSource[2].rank.kind = "absent"
    /\ Len(Get(apiRet).items) = 1
    /\ Get(apiRet).items[1].rank = 2

\* no entry of the answered list has a term
NoTerms == \A i \in DOMAIN Get(apiResp).data : ~HasTerm(Get(apiResp).data[i])

\* C15: a successful answer whose list is empty or holds no term gives a
\* non-null empty result; null comes only from a failed call
C15_EmptyIsNotNull ==
    /\ ApiAnswerOk /\ NoTerms =>
           ~IsNone(apiRet) /\ Get(apiRet).total = 0 /\ Get(apiRet).items = << >>
    /\ apiState = "returned" /\ IsNone(apiRet) => ApiAnswerIsFailure

C15_Witness ==
    /\ ApiAnswerOk /\ NoTerms
    /\ Get(apiResp).data /= << >>
    /\ ~IsNone(apiRet) /\ Get(apiRet).total = 0

(* ------------------------- _parse_heat_value --------------------------- *)

\* the heat strings the parser is applied to: signed decimal numbers with
\* and without unit markers, spelled plainly, with surrounding blanks or
\* with a separator comma, and the non-numeric texts
IntDigits == { "0", "2" }
FracDigitsPool == { "5", "7" }
IntParts == SeqsUpTo(IntDigits, MaxIntDigits)
FracParts ==
    { << >> } \cup { << "." >> \o f : f \in SeqsUpTo(FracDigitsPool, MaxFracDigits) }
HeatSigns == { << >>, << "-" >> }
HeatMarkers ==
    { << >>, << "w" >>, << "k" >>, << "wan" >>, << "qian" >>, << "W" >>, << "k", "w" >> }
HeatNumbers == { sg \o i \o f : sg \in HeatSigns, i \in IntParts, f \in FracParts }

WithComma(s) == IF Len(s) >= 2 THEN << s[1], "," >> \o Tail(s) ELSE s
Spellings(s) == { s, << " " >> \o s \o << " " >>, WithComma(s) }

HeatWords ==
    { EmptyStr, << "a", "b", "c" >>, << "n", "/", "a" >>, << "i", "n", "f" >>,
      << "n", "a", "n" >>, << "-", "5" >>, << "3", "k" >>, << "1", "5", "0" >>,
      << "1", "1", "0", "0", ".", "9", "w" >> }

HeatStrings ==
    HeatWords \cup UNION { Spellings(n \o m) : n \in HeatNumbers, m \in HeatMarkers }

InitHeat ==
    /\ NewCrawler(DefaultConfig, TRUE, TRUE) /\ NewStore /\ NoMain /\ NoApi /\ NoAnalysis
    /\ heat_str \in HeatStrings
    /\ heatRet = None

\* one call of _parse_heat_value on the chosen string
ParseHeatValue ==
    /\ heatRet = None
    /\ heatRet' = Some(_parse_heat_value(heat_str))
    /\ UNCHANGED << heat_str, crawlerVars, storeVars, apiVars, analysisVars, mainVars >>

NextHeat == ParseHeatValue

SpecHeat == InitHeat /\ [][NextHeat]_vars

\* C16: _parse_heat_value never raises and never returns a negative
\* number, whatever string it is given
C16_HeatNeverNegativeNeverRaises ==
    ~IsNone(heatRet) => ~Get(heatRet).raised /\ Get(heatRet).value >= 0

\* the reading of a heat string the scaling rule is stated for: case,
\* surrounding blanks and separator commas set aside, a decimal number
\* followed by at most one unit marker
UnitMarkers == { "w", "wan", "k", "qian" }
PlainHeat(s) == Remove(Strip(Lower(s)), ",")
Marked(s) == s /= << >> /\ s[Len(s)] \in UnitMarkers
NumberPart(s) == IF Marked(s) THEN SubSeq(s, 1, Len(s) - 1) ELSE s
ScaleOf(s) ==
    IF ~Marked(s) THEN 1
    ELSE IF s[Len(s)] \in { "w", "wan" } THEN 10000 ELSE 1000

\* trunc(n * scale) of the decimal number written by num, in exact arithmetic
ExactScaled(num, scale) ==
    LET m == DigitsToInt(Remove(num, "."))
        d == Pow10(FracDigits(num))
    IN  (m \div d) * scale + ((m % d) * scale) \div d

\* C17: a decimal number with at most one unit marker yields trunc(n * 10000)
\* for w, trunc(n * 1000) for k and trunc(n) without marker, whatever the
\* case, the surrounding blanks and the commas; with markers of both kinds
\* the ten-thousand branch is taken, which leaves nothing to scale
C17_HeatScaling ==
    ~IsNone(heatRet) =>
        LET s == PlainHeat(heat_str)
        IN  /\ IsDecimal(NumberPart(s)) =>
                   /\ ~Get(heatRet).raised
                   /\ Get(heatRet).value = ExactScaled(NumberPart(s), ScaleOf(s))
            /\ (\E i \in DOMAIN s : s[i] \in { "w", "wan" })
                   /\ (\E i \in DOMAIN s : s[i] \in { "k", "qian" })
                   /\ IsDecimal(SelectSeq(s, LAMBDA c : c \notin UnitMarkers))
                   => ~Get(heatRet).raised /\ Get(heatRet).value = 0

(* ----------------------- analyze_hot_search_data ----------------------- *)

\* the results handed to the analysis: built by add_item from a few items
\* whose terms share tokens, with or without a run of BulkLen items of
\* distinct terms before or after them, or returned by load_json
AnalysisWords == { << "a" >>, << "b" >>, << "a", " ", " ", "b" >> }
AnalysisHeats == { 0, 3, 5 }
AnalysisItems ==
    { HotSearchItem(w, h, 1, EmptyStr) : w \in AnalysisWords, h \in AnalysisHeats }

DigitChars == << "0", "1", "2", "3", "4", "5", "6", "7", "8", "9" >>
BulkWord(i) == << "t", DigitChars[(i \div 10) + 1], DigitChars[(i % 10) + 1] >>
BulkItems(n) == [i \in 1 .. n |-> HotSearchItem(BulkWord(i), 1, i, EmptyStr)]
BulkLen == 20

RECURSIVE WithItems(_, _)
WithItems(res, items) ==
    IF items = << >> THEN res ELSE WithItems(add_item(res, Head(items)), Tail(items))

AnalysisInputs ==
    { None }
    \cup { Some(WithItems(HotSearchResult(0), q)) : q \in SeqsUpTo(AnalysisItems, MaxItems) }
    \cup { Some(WithItems(HotSearchResult(0), q \o BulkItems(BulkLen))) :
             q \in SeqsUpTo(AnalysisItems, MaxItems) }
    \cup { Some(WithItems(HotSearchResult(0), BulkItems(BulkLen) \o q)) :
             q \in SeqsUpTo(AnalysisItems, MaxItems) }
    \cup { Some(DocToResult(doc)) : doc \in ForeignDocs }

InitAnalyze ==
    /\ NewCrawler(DefaultConfig, TRUE, TRUE) /\ NewStore /\ NoMain /\ NoApi /\ NoHeat
    /\ anInput \in AnalysisInputs
    /\ stats = None
    /\ analysed = FALSE
    /\ current_items = None
    /\ previous_items = None
    /\ trend = None
    /\ trendBack = None

\* one call of analyze_hot_search_data on the chosen result
Analyze ==
    /\ ~analysed
    /\ analysed' = TRUE
    /\ stats' = analyze_hot_search_data(anInput)
    /\ UNCHANGED << anInput, current_items, previous_items, trend, trendBack >>
    /\ UNCHANGED << crawlerVars, storeVars, apiVars, heatVars, mainVars >>

NextAnalyze == Analyze

SpecAnalyze == InitAnalyze /\ [][NextAnalyze]_vars

\* the heats the statistics are due to range over
PositiveHeats ==
    LET items == Get(anInput).items
    IN  SelectSeq([i \in DOMAIN items |-> items[i].heat], LAMBDA h : h > 0)

\* m is a median of the numbers q: as many of them lie at or below it as at
\* or above it, and at least half on each side
IsMedian(m, q) ==
    /\ 2 * Cardinality({ i \in DOMAIN q : q[i] * m.den <= m.num }) >= Len(q)
    /\ 2 * Cardinality({ i \in DOMAIN q : q[i] * m.den >= m.num }) >= Len(q)
    /\ \/ \E i \in DOMAIN q : q[i] * m.den = m.num
       \/ \E i, j \in DOMAIN q :
              /\ (q[i] + q[j]) * m.den = 2 * m.num
              /\ \A k \in DOMAIN q : q[k] <= q[i] \/ q[k] >= q[j]

\* C18: null for a null result or one without items; otherwise the item
\* count and the heat statistics over the items with heat > 0, all 0 when
\* there is none
C18_AnalyzeStats ==
    analysed =>
        IF IsNone(anInput) \/ Len(Get(anInput).items) = 0 THEN IsNone(stats)
        ELSE /\ ~IsNone(stats)
             /\ Get(stats).total_items = Len(Get(anInput).items)
             /\ LET hs == Get(stats).heat_stats
                    pos == PositiveHeats
                IN  IF pos = << >>
                    THEN /\ hs.avg_heat.num = 0 /\ hs.median_heat.num = 0
                         /\ hs.max_heat = 0 /\ hs.min_heat = 0
                    ELSE /\ hs.avg_heat.num * Len(pos) = Sum(pos) * hs.avg_heat.den
                         /\ \E i \in DOMAIN pos : pos[i] = hs.max_heat
                         /\ \A i \in DOMAIN pos : pos[i] <= hs.max_heat
                         /\ \E i \in DOMAIN pos : pos[i] = hs.min_heat
                         /\ \A i \in DOMAIN pos : pos[i] >= hs.min_heat
                         /\ IsMedian(hs.median_heat, pos)

\* the whitespace-delimited tokens of all item terms, in item order
RECURSIVE TokensOf(_)
TokensOf(items) ==
    IF items = << >> THEN << >> ELSE Split(Head(items).word) \o TokensOf(Tail(items))

\* how often each token occurs and where it occurs first
FreqOf(tokens) ==
    [t \in { tokens[i] : i \in DOMAIN tokens } |->
        Cardinality({ i \in DOMAIN tokens : tokens[i] = t })]
FirstSeenOf(tokens) ==
    [t \in { tokens[i] : i \in DOMAIN tokens } |->
        CHOOSE i \in DOMAIN tokens :
            tokens[i] = t /\ \A j \in 1 .. i - 1 : tokens[j] /= t]

\* C19: the histogram holds the min(20, number of distinct tokens) tokens
\* that rank first by frequency and then by first occurrence, in that
\* order, each with its frequency
C19_TopWordsStable ==
    analysed /\ ~IsNone(stats) =>
        LET top == Get(stats).top_words
            tokens == TokensOf(Get(anInput).items)
            freq == FreqOf(tokens)
            first == FirstSeenOf(tokens)
            distinct == DOMAIN freq
            listed == { top[i].word : i \in DOMAIN top }
            Ahead(u, v) == freq[u] > freq[v] \/ (freq[u] = freq[v] /\ first[u] < first[v])
        IN  /\ Len(top) = Min(20, Cardinality(distinct))
            /\ \A i \in DOMAIN top :
                   top[i].word \in distinct /\ top[i].n = freq[top[i].word]
            /\ \A i, j \in DOMAIN top : i < j => Ahead(top[i].word, top[j].word)
            /\ \A u \in listed, v \in distinct \ listed : Ahead(u, v)

\* more than 20 distinct tokens, the two most frequent ones first seen after
\* the others, equal frequencies cut off at 20
C19_Witness ==
    /\ analysed /\ ~IsNone(stats)
    /\ LET top == Get(stats).top_words
           first == FirstSeenOf(TokensOf(Get(anInput).items))
       IN  /\ Cardinality(DOMAIN first) > 20
           /\ Len(top) = 20
           /\ top[1].n = 2 /\ top[2].n = 2
           /\ first[top[2].word] > first[top[3].word]
           /\ top[20].n = 1

(* ----------------------- generate_trend_analysis ----------------------- *)

\* two rankings over three terms, either of them followed or not by a run
\* of TrendBulkLen items of further distinct terms
TrendItems ==
    { HotSearchItem(w, r, r, EmptyStr) : w \in { << "a" >>, << "b" >> }, r \in { 1, 2 } }
    \cup { HotSearchItem(<< "c" >>, 2, 2, EmptyStr) }
TrendBulkLen == 11
TrendLists == SeqsUpTo(TrendItems, MaxItems)

InitTrend ==
    /\ NewCrawler(DefaultConfig, TRUE, TRUE) /\ NewStore /\ NoMain /\ NoApi /\ NoHeat
    /\ anInput = None /\ stats = None /\ analysed = FALSE
    /\ \/ \E c \in TrendLists, q \in TrendLists, bulk \in { "none", "current", "previous" } :
            /\ current_items =
                   Some(IF bulk = "current" THEN c \o BulkItems(TrendBulkLen) ELSE c)
            /\ previous_items =
                   Some(IF bulk = "previous" THEN q \o BulkItems(TrendBulkLen) ELSE q)
       \/ \E c \in TrendLists : current_items = Some(c) /\ previous_items = None
       \/ \E q \in TrendLists : current_items = None /\ previous_items = Some(q)
       \/ current_items = None /\ previous_items = None
    /\ trend = None
    /\ trendBack = None

\* one call of generate_trend_analysis on the chosen rankings
TrendAnalysis ==
    /\ IsNone(trend)
    /\ trend' = Some(generate_trend_analysis(current_items, previous_items))
    /\ UNCHANGED << anInput, stats, analysed, current_items, previous_items, trendBack >>
    /\ UNCHANGED << crawlerVars, storeVars, apiVars, heatVars, mainVars >>

\* one call of generate_trend_analysis with the two rankings exchanged
TrendAnalysisBack ==
    /\ IsNone(trendBack)
    /\ trendBack' = Some(generate_trend_analysis(previous_items, current_items))
    /\ UNCHANGED << anInput, stats, analysed, current_items, previous_items, trend >>
    /\ UNCHANGED << crawlerVars, storeVars, apiVars, heatVars, mainVars >>

NextTrend == TrendAnalysis \/ TrendAnalysisBack

SpecTrend == InitTrend /\ [][NextTrend]_vars

\* both arguments are lists and the previous one is not empty
BothRankings ==
    ~IsNone(current_items) /\ ~IsNone(previous_items) /\ Get(previous_items) /= << >>
Current == Get(current_items)
Previous == Get(previous_items)

\* the terms of a ranking, where each occurs first, and its rank where it
\* occurs last
TermsOf(items) == { items[i].word : i \in DOMAIN items }
FirstAt(items) ==
    [w \in TermsOf(items) |->
        CHOOSE i \in DOMAIN items :
            items[i].word = w /\ \A j \in 1 .. i - 1 : items[j].word /= w]
LastRank(items) ==
    [w \in TermsOf(items) |->
        items[CHOOSE i \in DOMAIN items :
                  items[i].word = w /\ \A j \in i + 1 .. Len(items) : items[j].word /= w].rank]

\* the rank-change entries are one per term present in both rankings whose
\* delta = previous rank - current rank is not 0, each with that delta
RankChangesExact(changes) ==
    LET cr == LastRank(Current)
        pr == LastRank(Previous)
        movedTerms == { w \in DOMAIN cr \cap DOMAIN pr : pr[w] - cr[w] /= 0 }
    IN  /\ { changes[i].word : i \in DOMAIN changes } = movedTerms
        /\ Len(changes) = Cardinality(movedTerms)
        /\ \A i \in DOMAIN changes :
               /\ changes[i].change = pr[changes[i].word] - cr[changes[i].word]
               /\ changes[i].change /= 0

\* C20 as stated: the terms reported as new (removed) are exactly those of
\* current absent from previous (of previous absent from current)
C20_TrendReportsExactTerms ==
    ~IsNone(trend) /\ BothRankings =>
        LET t == Get(trend)
        IN  /\ { t.new_words_list[i] : i \in DOMAIN t.new_words_list }
                   = TermsOf(Current) \ TermsOf(Previous)
            /\ { t.removed_words_list[i] : i \in DOMAIN t.removed_words_list }
                   = TermsOf(Previous) \ TermsOf(Current)
            /\ RankChangesExact(t.rank_changes)

\* `list` holds the first min(|terms|, 10) of `terms` in the order in
\* which they first occur in `items`
FirstTen(list, terms, items) ==
    LET first == FirstAt(items)
        listed == { list[i] : i \in DOMAIN list }
    IN  /\ Len(list) = Min(Cardinality(terms), 10)
        /\ listed \subseteq terms
        /\ \A i, j \in DOMAIN list : i < j => first[list[i]] < first[list[j]]
        /\ \A u \in listed, v \in terms \ listed : first[u] < first[v]

\* C20, amended: the counts of new and removed terms are exact, the term
\* lists hold the first 10 of them, and the rank changes are as stated
C20_TrendReport ==
    ~IsNone(trend) /\ BothRankings =>
        LET t == Get(trend)
            added == TermsOf(Current) \ TermsOf(Previous)
            gone == TermsOf(Previous) \ TermsOf(Current)
        IN  /\ t.new_items = Cardinality(added)
            /\ t.removed_items = Cardinality(gone)
            /\ FirstTen(t.new_words_list, added, Current)
            /\ FirstTen(t.removed_words_list, gone, Previous)
            /\ RankChangesExact(t.rank_changes)
            /\ WordsItems(Previous) = << << "a" >>, << "b" >> >>
                   /\ WordsItems(Current) = << << "b" >>, << "c" >> >>
                   /\ Previous[1].rank = 1 /\ Previous[2].rank = 2
                   /\ Current[1].rank = 1 /\ Current[2].rank = 2
                   => /\ t.new_words_list = << << "c" >> >>
                      /\ t.removed_words_list = << << "a" >> >>
                      /\ t.rank_changes = << [word |-> << "b" >>, current_rank |-> 1,
                                             previous_rank |-> 2, change |-> 1] >>

\* eleven new terms of which ten are listed, one removed term and one term
\* that moved up
C20_Witness ==
    /\ ~IsNone(trend) /\ BothRankings
    /\ Get(trend).new_items = 11
    /\ Len(Get(trend).new_words_list) = 10
    /\ Get(trend).removed_words_list = << << "a" >> >>
    /\ Len(Get(trend).rank_changes) = 1
    /\ Get(trend).rank_changes[1].change = 1

\* a term occurs more than once in the ranking
HasDuplicates(items) == Cardinality(TermsOf(items)) < Len(items)

\* C21: generate_trend_analysis always returns a report: the "no previous
\* data" report when the previous ranking is null or empty, whatever the
\* current one is; and when both rankings are given, duplicates included, a
\* normal report in which every rank-change entry carries the ranks of the
\* last occurrence of its term on either side
C21_TrendNeverFails ==
    ~IsNone(trend) =>
        LET t == Get(trend)
        IN  /\ t.status \in { "no_previous_data", "ok", "error" }
            /\ IsNone(previous_items) \/ Get(previous_items) = << >>
                   => t.status = "no_previous_data"
            /\ BothRankings =>
                   /\ t.status = "ok"
                   /\ RankChangesExact(t.rank_changes)
                   /\ \A i \in DOMAIN t.rank_changes :
                          /\ t.rank_changes[i].current_rank
                                 = LastRank(Current)[t.rank_changes[i].word]
                          /\ t.rank_changes[i].previous_rank
                                 = LastRank(Previous)[t.rank_changes[i].word]

\* the current ranking holds a term twice, first at the rank it has in the
\* previous ranking and then at another one, and the move is reported
C21_Witness ==
    /\ ~IsNone(trend) /\ BothRankings
    /\ HasDuplicates(Current)
    /\ Len(Current) = 2 /\ Current[1].rank = 1 /\ Current[2].rank = 2
    /\ Len(Previous) = 1 /\ Previous[1].word = Current[1].word /\ Previous[1].rank = 1
    /\ Len(Get(trend).rank_changes) = 1
    /\ Get(trend).rank_changes[1].change = -1

(* ------------------------- claims: the items --------------------------- *)

\* a RankedItem as the data model describes it
ValidItem(item) == item.word /= EmptyStr /\ item.heat >= 0 /\ item.rank >= 1
AllValid(res) == \A i \in DOMAIN res.items : ValidItem(res.items[i])

\* C22: every item of a ResultSet returned by the scrape parser, by the DOM
\* heuristic, by the orchestrator or by the API parser has a non-empty term,
\* a heat >= 0 and a rank >= 1
C22_ItemsWellFormed ==
    /\ ~IsNone(primary) => AllValid(Get(primary))
    /\ AllValid(domResult)
    /\ ~IsNone(ret) => AllValid(Get(ret))
    /\ ~IsNone(scrapeRet) => AllValid(Get(scrapeRet))
    /\ ~IsNone(apiRet) => AllValid(Get(apiRet))

(* --------------------------- claims: teardown -------------------------- *)

\* a step of close() was attempted, or had no handle to act on
Attempted(step) == step \in { "skipped", "done", "raised" }

\* C23: close() of the orchestrator lets no exception escape, and a failing
\* session close or browser close does not keep the later steps (browser
\* close, engine stop) from being attempted
C23_TeardownNeverRaises ==
    pc = "closed" =>
        /\ ~closeRaised
        /\ teardown.session = "raised" =>
               Attempted(teardown.browser) /\ Attempted(teardown.engine)
        /\ teardown.browser = "raised" => Attempted(teardown.engine)

(* ------------------ main() of crawl_today_with_fallback.py -------------- *)

\* main() has built its orchestrator with create_crawler_with_fallback() and
\* enters the try block
InitMain ==
    /\ \E available \in BOOLEAN, jsonErr \in BOOLEAN :
           NewCrawler(DefaultConfig, available, jsonErr)
    /\ NewStore /\ NoApi /\ NoHeat /\ NoAnalysis
    /\ mainPc = "try"
    /\ mainWhy = "none"

\* result = crawler.crawl_hot_search(): the one call main() makes
MainCrawl ==
    /\ mainPc = "try"
    /\ pc /= "done"
    /\ FetchStep

\* `if not result: return 1`, and otherwise on to saving and reporting
MainResult ==
    /\ mainPc = "try"
    /\ pc = "done"
    /\ IF IsNone(ret)
       THEN mainPc' = "finally" /\ mainWhy' = "null"
       ELSE mainPc' = "persist" /\ mainWhy' = mainWhy
    /\ UNCHANGED << crawlerVars, storeVars, apiVars, heatVars, analysisVars >>

\* save_json, save_csv and the text report: they end normally (`return 0`)
\* or with an exception that `except Exception` turns into `return 1`
MainPersist(raises) ==
    /\ mainPc = "persist"
    /\ mainPc' = "finally"
    /\ mainWhy' = IF raises THEN "error" ELSE "normal"
    /\ UNCHANGED << crawlerVars, storeVars, apiVars, heatVars, analysisVars >>

Interrupt_escapes ==
    /\ \/ mainPc = "try" /\ pc \notin { "idle", "done" }
       \/ mainPc = "persist"
    /\ mainPc' = "exit"
    /\ mainWhy' = "interrupt"
    /\ pc' = IF mainPc = "try" THEN "interrupted" ELSE pc
    /\ UNCHANGED << config, PLAYWRIGHT_AVAILABLE, jsonErrorIsRequestException,
                    use_playwright, playwright, browser, attempt, events,
                    response_data, result, domResult, ret, ctx, contexts,
                    aliveEngines, aliveBrowsers, nextId, calls, primary, engineStarts,
                    startsThisCall, extractRan, startFailedNow, startFailedEver,
                    probes, closeRaised, closeCalls, teardown >>
    /\ UNCHANGED << storeVars, apiVars, heatVars, analysisVars >>

\* a KeyboardInterrupt arrives while crawl_hot_search runs (in a sleep, a
\* GET or a browser step) or while main() saves: no `except Exception`
\* catches it, the call is abandoned where it is, and main() goes through
\* `except KeyboardInterrupt` to its finally clause
Interrupt ==
    /\ \/ mainPc = "try" /\ pc \notin { "idle", "done" }
       \/ mainPc = "persist"
    /\ mainPc' = "finally"
    /\ mainWhy' = "interrupt"
    /\ pc' = IF mainPc = "try" THEN "interrupted" ELSE pc
    /\ UNCHANGED << config, PLAYWRIGHT_AVAILABLE, jsonErrorIsRequestException,
                    use_playwright, playwright, browser, attempt, events,
                    response_data, result, domResult, ret, ctx, contexts,
                    aliveEngines, aliveBrowsers, nextId, calls, primary, engineStarts,
                    startsThisCall, extractRan, startFailedNow, startFailedEver,
                    probes, closeRaised, closeCalls, teardown >>
    /\ UNCHANGED << storeVars, apiVars, heatVars, analysisVars >>

\* finally: crawler.close()
MainClose ==
    /\ mainPc = "finally"
    /\ \E s \in BOOLEAN, b \in BOOLEAN, p \in BOOLEAN : Close(s, b, p)

\* main() returns, or the exception of close() leaves it: the process exits
MainExit ==
    /\ mainPc = "finally"
    /\ pc = "closed"
    /\ mainPc' = "exit"
    /\ UNCHANGED << mainWhy, crawlerVars, storeVars, apiVars, heatVars, analysisVars >>

NextMain ==
    \/ MainCrawl
    \/ MainResult
    \/ \E raises \in BOOLEAN : MainPersist(raises)
    \/ Interrupt
    \/ MainClose
    \/ MainExit

SpecMain == InitMain /\ [][NextMain]_vars

\* C24: on every way out of main() (normal end, null result, exception
\* while saving, interrupt during the fetch) close() of the orchestrator has
\* been called exactly once when the process exits, never before the try
\* block is left, and when no step of it raised no browser, context or
\* engine is left alive
C24_ReleasedExactlyOnce ==
    /\ closeCalls <= 1
    /\ mainPc \in { "try", "persist" } => closeCalls = 0
    /\ mainPc = "exit" =>
           /\ closeCalls = 1
           /\ mainWhy \in { "normal", "null", "error", "interrupt" }
           /\ teardown.session = "done" /\ teardown.browser /= "raised"
                  /\ teardown.engine /= "raised"
                  => aliveBrowsers = { } /\ aliveEngines = { } /\ contexts = { }

\* the interrupt arrived during the browser extraction, with a context
\* open, and the one close() closed the browser and stopped the engine
C24_Witness ==
    /\ mainPc = "exit"
    /\ mainWhy = "interrupt"
    /\ extractRan
    /\ closeCalls = 1
    /\ teardown = [session |-> "done", browser |-> "done", engine |-> "done"]
    /\ aliveBrowsers = { } /\ contexts = { }

(* ------------------- claims: what the orchestrator returns -------------- *)

\* the primary strategy returned a ResultSet without items
PrimaryEmpty == ~IsNone(primary) /\ Get(primary).total = 0

\* C25: whatever crawl_hot_search of the orchestrator returns is null or a
\* ResultSet with total > 0 (and as many items); an empty primary result is
\* never returned: without a browser extraction the call returns null
C25_NeverReturnsEmpty ==
    pc = "done" =>
        /\ ~IsNone(ret) => Get(ret).total > 0 /\ Len(Get(ret).items) = Get(ret).total
        /\ PrimaryEmpty => ret /= primary
        /\ PrimaryEmpty /\ ~extractRan => IsNone(ret)

\* the primary strategy returned an empty ResultSet and the call returned
\* the items of the browser extraction instead
C25_Witness ==
    /\ pc = "done"
    /\ PrimaryEmpty
    /\ extractRan
    /\ ~IsNone(ret)
    /\ Get(ret).total > 0

(* ------------------- claims: engine and browser handles ----------------- *)

\* close() ran all its steps and none of them raised
CleanTeardown ==
    /\ pc = "closed"
    /\ teardown.session = "done"
    /\ teardown.browser \in { "skipped", "done" }
    /\ teardown.engine \in { "skipped", "done" }

\* C26: over any sequence of crawl_hot_search calls on one orchestrator
\* followed by close(), at most one started engine and one launched browser
\* are alive at a time, and after a close() none of whose steps raised,
\* no engine or browser started by any of the calls is left alive
C26_NoOrphanedBrowser ==
    /\ Cardinality(aliveEngines) <= 1
    /\ Cardinality(aliveBrowsers) <= 1
    /\ CleanTeardown => aliveEngines = { } /\ aliveBrowsers = { }

(* ---------------------------- claims: ranks ---------------------------- *)

\* the ranks of `res` increase strictly along its items and lie in 1..limit
RanksWithin(res, limit) ==
    /\ \A i \in DOMAIN res.items : res.items[i].rank \in 1 .. limit
    /\ \A i, j \in DOMAIN res.items : i < j => res.items[i].rank < res.items[j].rank
    /\ res.total <= limit

\* C27: in every ResultSet built by the scrape parser or by the DOM
\* heuristic the ranks increase strictly in item order and lie within
\* 1..limit, so that total <= limit
C27_RanksIncreaseWithinLimit ==
    /\ ~IsNone(primary) => RanksWithin(Get(primary), config.limit)
    /\ RanksWithin(domResult, config.limit)
    /\ ~IsNone(scrapeRet) => RanksWithin(Get(scrapeRet), scrapeLimit)

\* the first matched element gave no item and the second one did: the only
\* item of the extraction has rank 2
C27_Witness ==
    /\ config.limit = 2
    /\ pc = "extract_b"
    /\ domResult.total = 1
    /\ Len(domResult.items) = 1
    /\ domResult.items[1].rank = 2

(* ------------------ claims: the trend report, exchanged ----------------- *)

\* both calls were made, on two non-empty rankings
BothReports ==
    /\ ~IsNone(trend) /\ ~IsNone(trendBack)
    /\ BothRankings /\ Current /= << >>

\* the change reported for each term of a list of rank-change entries
ChangeOf(changes) ==
    [w \in { changes[i].word : i \in DOMAIN changes } |->
        changes[CHOOSE i \in DOMAIN changes : changes[i].word = w].change]

\* C28: for two non-empty rankings the report of (a, b) and the report of
\* (b, a) have the new and the removed terms exchanged, rank-change entries
\* for the same terms with opposite changes; the number of new terms plus
\* the number of common terms is the number of distinct terms of current;
\* and each term list has min(count, 10) entries
C28_TrendAntisymmetric ==
    BothReports =>
        LET t == Get(trend)
            u == Get(trendBack)
            tc == ChangeOf(t.rank_changes)
            uc == ChangeOf(u.rank_changes)
            common == TermsOf(Current) \cap TermsOf(Previous)
        IN  /\ t.new_items = u.removed_items
            /\ t.removed_items = u.new_items
            /\ t.new_words_list = u.removed_words_list
            /\ t.removed_words_list = u.new_words_list
            /\ DOMAIN tc = DOMAIN uc
            /\ Len(t.rank_changes) = Len(u.rank_changes)
            /\ \A w \in DOMAIN tc : tc[w] = 0 - uc[w]
            /\ t.new_items + Cardinality(common) = Cardinality(TermsOf(Current))
            /\ u.new_items + Cardinality(common) = Cardinality(TermsOf(Previous))
            /\ Len(t.new_words_list) = Min(t.new_items, 10)
            /\ Len(t.removed_words_list) = Min(t.removed_items, 10)

\* eleven terms are new one way and removed the other way, ten of them
\* listed, and the one common term moved by one rank, up one way and down
\* the other
C28_Witness ==
    /\ BothReports
    /\ Get(trend).new_items = 11
    /\ Len(Get(trendBack).removed_words_list) = 10
    /\ Len(Get(trend).rank_changes) = 1
    /\ Get(trend).rank_changes[1].change = 1
    /\ Get(trendBack).rank_changes[1].change = -1

====
